---------------------------- MODULE Spec2Model ----------------------------
(***************************************************************************)
(* Frenet optimal trajectory planner (fop::FrenetOptimalTrajectoryPlanner, *)
(* fop::Spline, fop::Spline2D).                                            *)
(*                                                                         *)
(* Numbers.  A double is modelled as an integer in fixed units, or one of  *)
(* three tokens: NaN, Inf (an infinity of either sign) and Eps (a nonzero  *)
(* value below the resolution of the units, such as cos(pi/2) = 6.1e-17    *)
(* in double arithmetic).  The tokens are integers beyond the range of     *)
(* every value the model computes.  Angles are in degrees.                 *)
(***************************************************************************)
EXTENDS Integers, Sequences, FiniteSets, TLC

NaN == 1000 * 1000 + 1
Inf == 1000 * 1000 + 2
Eps == 1000 * 1000 + 3
NonFinite == {NaN, Inf}

\* The magnitude a value contributes to a sum: "eps" is absorbed.
Num(v) == IF v = Eps THEN 0 ELSE v

Abs(n) == IF n < 0 THEN -n ELSE n

Add(a, b) ==
  IF a \in NonFinite \/ b \in NonFinite THEN NaN
  ELSE IF a = Eps /\ Num(b) = 0 THEN Eps
  ELSE IF b = Eps /\ Num(a) = 0 THEN Eps
  ELSE Num(a) + Num(b)

Sub(a, b) ==
  IF a \in NonFinite \/ b \in NonFinite THEN NaN
  ELSE IF a = Eps /\ b = Eps THEN 0
  ELSE IF a = Eps /\ Num(b) = 0 THEN Eps
  ELSE IF b = Eps /\ Num(a) = 0 THEN Eps
  ELSE Num(a) - Num(b)

Mul(a, b) ==
  IF a \in NonFinite \/ b \in NonFinite THEN NaN
  ELSE IF a = 0 \/ b = 0 THEN 0
  ELSE IF a = Eps \/ b = Eps THEN Eps
  ELSE a * b

\* a / b in double arithmetic: x/0 is an infinity, 0/0 is NaN; a finite
\* quotient is truncated to the units.
Div(a, b) ==
  IF a \in NonFinite \/ b \in NonFinite THEN NaN
  ELSE IF Num(b) = 0 THEN (IF Num(a) = 0 THEN NaN ELSE Inf)
  ELSE IF Num(a) < 0 THEN -((-Num(a)) \div Abs(Num(b))) * (IF Num(b) < 0 THEN -1 ELSE 1)
  ELSE (Num(a) \div Abs(Num(b))) * (IF Num(b) < 0 THEN -1 ELSE 1)

\* a > b on doubles: any comparison with NaN is false.
Gt(a, b) ==
  IF a = NaN \/ b = NaN THEN FALSE
  ELSE IF a = Inf THEN TRUE
  ELSE Num(a) > Num(b)

\* a < b on doubles, for finite or NaN operands.
Lt(a, b) ==
  IF a \in NonFinite \/ b \in NonFinite THEN FALSE
  ELSE Num(a) < Num(b)

\* std::abs(a) > b
AbsGt(a, b) ==
  IF a = NaN THEN FALSE
  ELSE IF a = Inf THEN TRUE
  ELSE Abs(Num(a)) > b

\* std::isnormal: neither zero, subnormal, infinite nor NaN.
IsNormal(v) == v \notin NonFinite /\ v # 0

\* isLegal (math_utils): neither NaN nor infinite.
isLegal(v) == v \notin NonFinite

RECURSIVE ISqrtFrom(_, _)
ISqrtFrom(n, r) == IF (r + 1) * (r + 1) > n THEN r ELSE ISqrtFrom(n, r + 1)

\* sqrt, truncated to the units.
Sqrt(v) == IF v \in NonFinite THEN NaN ELSE ISqrtFrom(Num(v), 0)

\* atan2(dy, dx) in degrees, quantised to the nearest multiple of 45 (exact
\* for axis-parallel and diagonal displacements); atan2(0, 0) = 0.
Atan2(dy, dx) ==
  IF dy \in NonFinite \/ dx \in NonFinite THEN NaN
  ELSE LET y == Num(dy)
           x == Num(dx)
       IN IF y = 0 /\ x = 0 THEN 0
          ELSE IF 2 * Abs(y) < Abs(x) THEN (IF x > 0 THEN 0 ELSE 180)
          ELSE IF 2 * Abs(x) < Abs(y) THEN (IF y > 0 THEN 90 ELSE -90)
          ELSE IF x > 0 THEN (IF y > 0 THEN 45 ELSE -45)
          ELSE (IF y > 0 THEN 135 ELSE -135)

\* unifyAngleRange (math_utils): an angle mapped into (-180, 180].
unifyAngleRange(a) ==
  IF a \in NonFinite THEN NaN
  ELSE LET m == Num(a) % 360
       IN IF m > 180 THEN m - 360 ELSE m

\* cos and sin of a multiple of 90 degrees, as double arithmetic gives them:
\* cos(pi/2) and sin(pi) are tiny and nonzero.
Cos(a) ==
  IF a \in NonFinite THEN NaN
  ELSE LET m == Num(a) % 360
       IN IF m = 0 THEN 1 ELSE IF m = 180 THEN -1 ELSE Eps

Sin(a) ==
  IF a \in NonFinite THEN NaN
  ELSE LET m == Num(a) % 360
       IN IF m = 90 THEN 1 ELSE IF m = 270 THEN -1 ELSE IF m = 0 THEN 0 ELSE Eps

Last(q) == q[Len(q)]

(***************************************************************************)
(* Cubic spline (spline.cc).  Sequences are 1-based: the code's index i is *)
(* i + 1 here.                                                             *)
(***************************************************************************)

\* What an uncaught std::out_of_range of vector::at leaves in place of a value.
Throw == 1000 * 1000 + 4

\* The values an uninitialised Eigen matrix entry may hold.
GarbageValues == {0, NaN}

\* Spline::calculateMatrixB for num_x_ = 5; rows 1 and 5 are 0.
calculateMatrixB(h, a) ==
  [i \in 1..5 |->
     IF i = 1 \/ i = 5 THEN 0
     ELSE Sub(Div(Mul(3, Sub(a[i + 1], a[i])), h[i]),
              Div(Mul(3, Sub(a[i], a[i - 1])), h[i - 1]))]

\* C = A.inverse() * B.  Each entry of C is a sum over every entry of B, so
\* one NaN in B makes all of C NaN; B = 0 (collinear waypoints, the lanes
\* this model draws) gives C = 0.  For num_x_ # 5 neither A nor B is ever
\* written, and C is whatever the uninitialised memory held: garbage.
SolveC(n, h, a, garbage) ==
  IF n = 5
  THEN LET B == calculateMatrixB(h, a)
       IN IF \E i \in 1..5 : B[i] \in NonFinite
          THEN [i \in 1..5 |-> NaN]
          ELSE [i \in 1..5 |-> 0]
  ELSE garbage

\* Spline::Spline(x, y)
SplineOf(x, y, garbage) ==
  LET n == Len(x)
      h == [i \in 1..(n - 1) |-> Sub(x[i + 1], x[i])]
      c == SolveC(n, h, y, garbage)
  IN [x_ |-> x, y_ |-> y, num_x_ |-> n, a_ |-> y, c_ |-> c,
      d_ |-> [i \in 1..(n - 1) |-> Div(Sub(c[i + 1], c[i]), Mul(3, h[i]))],
      b_ |-> [i \in 1..(n - 1) |->
                Sub(Div(Sub(y[i + 1], y[i]), h[i]),
                    Div(Mul(h[i], Add(c[i + 1], Mul(2, c[i]))), 3))]]

\* Spline::searchIndex: the last knot not above x (the first knot if none).
searchIndex(sp, x) ==
  LET hits == {i \in 1..Len(sp.x_) : ~Lt(x, sp.x_[i]) /\ x # NaN}
  IN IF hits = {} THEN 1 ELSE CHOOSE i \in hits : \A k \in hits : k <= i

\* a + b dx + c dx^2 + d dx^3, as calculatePoint evaluates it.
CubicPoint(a, b, c, d, dx) ==
  Add(Add(Add(a, Mul(b, dx)), Mul(Mul(c, dx), dx)), Mul(Mul(Mul(d, dx), dx), dx))

\* The segment part of calculatePoint.  b_ and d_ hold num_x_ - 1 entries, so
\* b_.at(i) throws when searchIndex returns the last knot.
PointInSegment(sp, i, t) ==
  IF i > Len(sp.b_) THEN Throw
  ELSE CubicPoint(sp.a_[i], sp.b_[i], sp.c_[i], sp.d_[i], Sub(t, sp.x_[i]))

\* Spline::calculatePoint
calculatePoint(sp, t) ==
  IF Lt(t, sp.x_[1]) THEN 0
  ELSE IF Gt(t, Last(sp.x_)) THEN 0
  ELSE PointInSegment(sp, searchIndex(sp, t), t)

\* b + 2 c dx + 3 d dx^2, as calculateFirstDerivative evaluates it.
CubicFirstDerivative(b, c, d, dx) ==
  Add(Add(b, Mul(Mul(2, c), dx)), Mul(Mul(Mul(3, d), dx), dx))

DerivativeInSegment(sp, i, t) ==
  IF i > Len(sp.b_) THEN Throw
  ELSE CubicFirstDerivative(sp.b_[i], sp.c_[i], sp.d_[i], Sub(t, sp.x_[i]))

\* Spline::calculateFirstDerivative
calculateFirstDerivative(sp, t) ==
  IF Lt(t, sp.x_[1]) THEN 0
  ELSE IF Gt(t, Last(sp.x_)) THEN 0
  ELSE DerivativeInSegment(sp, searchIndex(sp, t), t)

\* Spline2D::calculate_s: cumulative distance between waypoints.
RECURSIVE calculate_s(_, _)
calculate_s(wps, n) ==
  IF n = 1 THEN <<0>>
  ELSE LET s == calculate_s(wps, n - 1)
           dx == Sub(wps.x[n], wps.x[n - 1])
           dy == Sub(wps.y[n], wps.y[n - 1])
       IN Append(s, Add(s[n - 1], Sqrt(Add(Mul(dx, dx), Mul(dy, dy)))))

\* Spline2D::Spline2D(ref_wps): no check of the waypoint count or of
\* repeated waypoints is made.
Spline2D(wps, gx, gy) ==
  LET s == calculate_s(wps, Len(wps.x))
  IN [s_ |-> s, sx_ |-> SplineOf(s, wps.x, gx), sy_ |-> SplineOf(s, wps.y, gy)]

\* Spline2D::calculatePosition
calculatePosition(sp2, s) ==
  [x |-> calculatePoint(sp2.sx_, s), y |-> calculatePoint(sp2.sy_, s)]

\* atan2(dy, dx) of two derivatives, unless the lookup of one threw.
YawOf(dx, dy) == IF dx = Throw \/ dy = Throw THEN Throw ELSE Atan2(dy, dx)

\* Spline2D::calculateYaw
calculateYaw(sp2, s) ==
  YawOf(calculateFirstDerivative(sp2.sx_, s), calculateFirstDerivative(sp2.sy_, s))

(***************************************************************************)
(* Planner settings (Setting, read through settings_).  Lengths are in     *)
(* units, times in ticks, curvature in degrees per unit.                   *)
(***************************************************************************)
settings_ ==
  [max_speed |-> 2, max_accel |-> 2, max_decel |-> -2, max_curvature |-> 45,
   num_width |-> 3, num_speed |-> 2, num_t |-> 2,
   lowest_speed |-> 1, highest_speed |-> 3,
   min_t |-> 1, max_t |-> 2, tick_t |-> 1,
   center_offset |-> 0,
   vehicle_length |-> 2, vehicle_width |-> 2,
   safety_margin_lon |-> 0, safety_margin_lat |-> 0,
   k_jerk |-> 1, k_time |-> 1, k_diff |-> 1, k_lat |-> 1, k_lon |-> 1]

(***************************************************************************)
(* FrenetPath: the fields the planner reads.  x, y, yaw, ds and c are      *)
(* empty until convertToGlobalFrame fills them.                            *)
(***************************************************************************)
FrenetPath(idx, end_state, fix_cost, hur_cost) ==
  [idx |-> idx, end_state |-> end_state,
   fix_cost |-> fix_cost, hur_cost |-> hur_cost, dyn_cost |-> 0, final_cost |-> 0,
   is_generated |-> FALSE, is_used |-> FALSE,
   constraint_passed |-> FALSE, collision_passed |-> FALSE,
   s |-> <<>>, d |-> <<>>, s_d |-> <<>>, s_dd |-> <<>>,
   x |-> <<>>, y |-> <<>>, yaw |-> <<>>, ds |-> <<>>, c |-> <<>>]

(***************************************************************************)
(* convertToGlobalFrame                                                    *)
(***************************************************************************)

\* The global point at lateral offset di from the reference point `state`
\* with reference yaw i_yaw, or Throw when the spline lookup threw.
OffsetPoint(state, i_yaw, di) ==
  IF state.x = Throw \/ state.y = Throw \/ i_yaw = Throw
  THEN [x |-> Throw, y |-> Throw]
  ELSE [x |-> Add(state.x, Mul(di, Cos(Add(i_yaw, 90)))),
        y |-> Add(state.y, Mul(di, Sin(Add(i_yaw, 90))))]

\* The global position of tick j.
FrenetPoint(traj, sp2, j) ==
  OffsetPoint(calculatePosition(sp2, traj.s[j]), calculateYaw(sp2, traj.s[j]), traj.d[j])

\* `if (!isLegal(fx) || !isLegal(fy)) break;` is not taken for this point.
LegalPoint(p) == p.x # Throw /\ isLegal(p.x) /\ isLegal(p.y)

\* The number of leading ticks whose global position is legal: the first loop
\* breaks at the first tick that is not.
RECURSIVE LegalPrefix(_, _, _)
LegalPrefix(traj, sp2, j) ==
  IF j > Len(traj.s) THEN j - 1
  ELSE IF ~LegalPoint(FrenetPoint(traj, sp2, j)) THEN j - 1
  ELSE LegalPrefix(traj, sp2, j + 1)

\* Whether the first loop, having kept m points, ends in an exception: the
\* next tick is one whose spline lookup throws.
ConvertThrows(traj, sp2, m) ==
  m < Len(traj.s) /\ FrenetPoint(traj, sp2, m + 1).x = Throw

\* sqrt(dx^2 + dy^2)
Hypot(dx, dy) == Sqrt(Add(Mul(dx, dx), Mul(dy, dy)))

\* The second loop: yaw and ds between consecutive points, the last of each
\* repeated.
YawsOf(pts) ==
  [j \in 1..Len(pts) |->
     IF j < Len(pts)
     THEN Atan2(Sub(pts[j + 1].y, pts[j].y), Sub(pts[j + 1].x, pts[j].x))
     ELSE Atan2(Sub(pts[j].y, pts[j - 1].y), Sub(pts[j].x, pts[j - 1].x))]

DistancesOf(pts) ==
  [j \in 1..Len(pts) |->
     IF j < Len(pts)
     THEN Hypot(Sub(pts[j + 1].x, pts[j].x), Sub(pts[j + 1].y, pts[j].y))
     ELSE Hypot(Sub(pts[j].x, pts[j - 1].x), Sub(pts[j].y, pts[j - 1].y))]

\* The third loop: one curvature per pair of consecutive yaws.
CurvaturesOf(yaw, ds) ==
  [j \in 1..(Len(yaw) - 1) |-> Div(unifyAngleRange(Sub(yaw[j + 1], yaw[j])), ds[j])]

WithCurvature(traj, yaw, ds) ==
  [traj EXCEPT !.yaw = yaw, !.ds = ds, !.c = CurvaturesOf(yaw, ds)]

\* x and y from the points kept.
WithPoints(traj, pts) ==
  [traj EXCEPT !.x = [j \in 1..Len(pts) |-> pts[j].x],
               !.y = [j \in 1..Len(pts) |-> pts[j].y]]

\* A second loop that does not repeat the last yaw and ds.
LastNotRepeated(traj, pts) ==
  WithCurvature(WithPoints(traj, pts),
                SubSeq(YawsOf(pts), 1, Len(pts) - 1),
                SubSeq(DistancesOf(pts), 1, Len(pts) - 1))

\* yaw, ds and c from two or more global points.
WithYawAndCurvature(traj, pts) ==
  WithCurvature(WithPoints(traj, pts), YawsOf(pts), DistancesOf(pts))

\* The outcomes of convertToGlobalFrame: [kind, traj] with kind "ok", "throw"
\* (an exception leaves the function) or "fault" (abnormal termination).
\*   no point kept:  `j < traj.x.size() - 1` compares against SIZE_MAX and
\*     the loop reads x[1], x[0] of an empty vector, without end: undefined
\*     behaviour that no build completes.
\*   one point kept: the loop is skipped and traj.yaw.back(), traj.ds.back()
\*     read an empty vector: undefined behaviour; the build either faults or
\*     appends whatever it read, and c stays empty.
ConvertedFrom(traj, sp2, pts) ==
  IF ConvertThrows(traj, sp2, Len(pts)) THEN {[kind |-> "throw", traj |-> traj]}
  ELSE IF Len(pts) = 0 THEN {[kind |-> "fault", traj |-> traj]}
  ELSE IF Len(pts) = 1
  THEN {[kind |-> "fault", traj |-> WithPoints(traj, pts)]}
       \cup {[kind |-> "ok", traj |-> [WithPoints(traj, pts) EXCEPT !.yaw = <<g>>, !.ds = <<g>>]] :
               g \in GarbageValues}
  ELSE {[kind |-> "ok", traj |-> WithYawAndCurvature(traj, pts)]}

convertToGlobalFrame(traj, sp2) ==
  ConvertedFrom(traj, sp2, [j \in 1..LegalPrefix(traj, sp2, 1) |-> FrenetPoint(traj, sp2, j)])

(***************************************************************************)
(* checkConstraints                                                        *)
(***************************************************************************)

\* The condition that sets passed = false at loop index i.
ConstraintViolatedAt(traj, i) ==
  \/ ~IsNormal(traj.x[i]) \/ ~IsNormal(traj.y[i])
  \/ Gt(traj.s_d[i], settings_.max_speed)
  \/ Gt(traj.s_dd[i], settings_.max_accel) \/ Lt(traj.s_dd[i], settings_.max_decel)
  \/ AbsGt(traj.c[i], settings_.max_curvature)

\* checkConstraints: the loop runs over the indices of traj.c.
checkConstraints(traj) ==
  [traj EXCEPT !.constraint_passed =
     \A i \in 1..Len(traj.c) : ~ConstraintViolatedAt(traj, i)]

(***************************************************************************)
(* Polynomial primitives (QuinticPolynomial, QuarticPolynomial).  A start  *)
(* state has zero lateral velocity, lateral acceleration and longitudinal  *)
(* acceleration, and an end state zero end derivatives (sampleEndStates),  *)
(* for which the closed forms are, with tau = t / T:                       *)
(*   d(t)    = d0 + (d1 - d0) (10 tau^3 - 15 tau^4 + 6 tau^5)              *)
(*   s_d(t)  = v0 + (v1 - v0) (3 tau^2 - 2 tau^3)                          *)
(*   s_dd(t) = (v1 - v0) (6 tau - 6 tau^2) / T                             *)
(*   s(t)    = s0 + v0 t + (v1 - v0) T (tau^3 - tau^4 / 2)                 *)
(*   d_ddd(t) = (d1 - d0) (60 - 360 tau + 360 tau^2) / T^3                 *)
(*   s_ddd(t) = (v1 - v0) (6 - 12 tau) / T^2                               *)
(***************************************************************************)
QuinticPoint(d0, d1, t, T) ==
  Add(d0, Div(Mul(Sub(d1, d0), 10 * t * t * t * T * T - 15 * t * t * t * t * T
                                 + 6 * t * t * t * t * t),
              T * T * T * T * T))

QuarticPoint(s0, v0, v1, t, T) ==
  Add(Add(s0, Mul(v0, t)),
      Div(Mul(Sub(v1, v0), 2 * t * t * t * T - t * t * t * t), 2 * T * T * T))

QuarticFirstDerivative(v0, v1, t, T) ==
  Add(v0, Div(Mul(Sub(v1, v0), 3 * t * t * T - 2 * t * t * t), T * T * T))

QuarticSecondDerivative(v0, v1, t, T) ==
  Div(Mul(Sub(v1, v0), 6 * t * T - 6 * t * t), T * T * T)

QuinticThirdDerivative(d0, d1, t, T) ==
  Div(Mul(Sub(d1, d0), 60 * T * T - 360 * t * T + 360 * t * t), T * T * T * T * T)

QuarticThirdDerivative(v0, v1, t, T) ==
  Div(Mul(Sub(v1, v0), 6 * T - 12 * t), T * T * T)

\* The ticks of `for (t = 0.0; t <= T; t += tick_t)`.
TicksOf(T) == [n \in 1..(T \div settings_.tick_t + 1) |-> (n - 1) * settings_.tick_t]

(***************************************************************************)
(* sampleEndStates                                                         *)
(***************************************************************************)
Cells ==
  {<<i, j, k>> : i \in 0..(settings_.num_width - 1),
                 j \in 0..(settings_.num_speed - 1),
                 k \in 0..(settings_.num_t - 1)}

Max2(a, b) == IF Gt(b, a) THEN b ELSE a

\* The cell (i, j, k) as sampleEndStates builds it.
SampledCell(start, i, j, k, left_bound, right_bound, current_speed) ==
  LET delta_width == Div(Sub(left_bound, settings_.center_offset),
                         (settings_.num_width - 1) \div 2)
      d == Add(right_bound, Mul(i, delta_width))
      lat_norm == Max2(Mul(Sub(left_bound, settings_.center_offset),
                           Sub(left_bound, settings_.center_offset)),
                       Mul(Sub(right_bound, settings_.center_offset),
                           Sub(right_bound, settings_.center_offset)))
      lat_cost == Div(Mul(Sub(d, settings_.center_offset),
                          Sub(d, settings_.center_offset)), lat_norm)
      delta_v == Div(settings_.highest_speed - settings_.lowest_speed,
                     settings_.num_speed - 1)
      v == Add(settings_.lowest_speed, Mul(j, delta_v))
      speed_cost == Add(Mul(Sub(settings_.highest_speed, v), Sub(settings_.highest_speed, v)),
                        Div(Mul(Sub(current_speed, v), Sub(current_speed, v)), 2))
      delta_t == Div(settings_.max_t - settings_.min_t, settings_.num_t - 1)
      T == Add(settings_.min_t, Mul(k, delta_t))
      time_cost == Sub(1, Div(T, settings_.max_t))
      fix_cost == Add(Mul(settings_.k_lat * settings_.k_diff, lat_cost),
                      Mul(settings_.k_lon,
                          Add(Mul(settings_.k_time, time_cost),
                              Mul(settings_.k_diff, speed_cost))))
      hur_cost == Mul(settings_.k_lat * settings_.k_diff,
                      Mul(Sub(start.d, d), Sub(start.d, d)))
  IN FrenetPath(<<i, j, k>>,
                [T |-> T, s |-> 0, s_d |-> v, s_dd |-> 0, d |-> d, d_d |-> 0, d_dd |-> 0],
                fix_cost, hur_cost)

\* The order the three nested loops visit the cells in, and the cell they
\* visit at a given place of that order.
CellRank(c) == (c[1] * settings_.num_speed + c[2]) * settings_.num_t + c[3]

CellAt(rank) ==
  <<rank \div (settings_.num_speed * settings_.num_t),
    (rank \div settings_.num_t) % settings_.num_speed,
    rank % settings_.num_t>>

\* std::numeric_limits<double>::max(), above every finite cost.
DblMax == 1000 * 1000

\* A comparison that also takes a cell of the same cost.
ImprovesOrTies(est_cost, min_cost) ==
  est_cost \notin NonFinite /\ Num(est_cost) <= Num(min_cost)

\* `if (est_cost < min_cost)`
Improves(est_cost, min_cost) == Lt(est_cost, min_cost)

\* The body of that if; acc = [min_cost, idx], idx = <<>> while unassigned.
SeedStep(acc, c, est_cost) ==
  IF Improves(est_cost, acc.min_cost) THEN [min_cost |-> est_cost, idx |-> <<c>>] ELSE acc

\* The three loops from place rank on, as far as min_cost and idx go.
RECURSIVE SeedLoop(_, _, _)
SeedLoop(grid, rank, acc) ==
  IF rank >= settings_.num_width * settings_.num_speed * settings_.num_t THEN acc
  ELSE SeedLoop(grid, rank + 1,
                SeedStep(acc, CellAt(rank),
                         Add(grid[CellAt(rank)].fix_cost, grid[CellAt(rank)].hur_cost)))

\* What `Eigen::Vector3i idx;` holds if no cell ever assigned it: anything,
\* inside the grid or not.
SeedsOf(idx) ==
  IF idx = <<>>
  THEN {<<0, 0, 0>>, <<settings_.num_width, settings_.num_speed, settings_.num_t>>}
  ELSE {idx[1]}

\* The indices sampleEndStates can return for a grid.
SeedIndex(grid) == SeedsOf(SeedLoop(grid, 0, [min_cost |-> DblMax, idx |-> <<>>]).idx)

\* The grid the loops build.
SampledGrid(start, left_bound, right_bound, current_speed) ==
  [c \in Cells |->
     SampledCell(start, c[1], c[2], c[3], left_bound, right_bound, current_speed)]

\* sampleEndStates: the pairs [trajs, idx] it can return.
sampleEndStates(start, left_bound, right_bound, current_speed) ==
  {[trajs |-> SampledGrid(start, left_bound, right_bound, current_speed), idx |-> idx] :
     idx \in SeedIndex(SampledGrid(start, left_bound, right_bound, current_speed))}

(***************************************************************************)
(* The candidate queue: std::priority_queue<FrenetPath> candidate_trajs_,  *)
(* a member of the planner, least final_cost on top.  It is held as the    *)
(* sequence of its entries; which of several least-cost entries is on top  *)
(* is left open.                                                           *)
(***************************************************************************)
QueuePush(queue, traj) == Append(queue, traj)

\* The positions that top() may return.
QueueTops(queue) ==
  {n \in 1..Len(queue) : \A m \in 1..Len(queue) : queue[n].final_cost <= queue[m].final_cost}

\* pop() of the entry at position n.
QueuePop(queue, n) == [m \in 1..(Len(queue) - 1) |-> IF m < n THEN queue[m] ELSE queue[m + 1]]

(***************************************************************************)
(* getTrajAndRealCost.  The search state st = [trajs, queue, num, cost]    *)
(* threads trajs_3d, candidate_trajs_, num_traj and the returned cost.     *)
(* Of the sampled sequences only those read later (s, d, s_d, s_dd) are    *)
(* kept; the third derivatives enter through the jerk sums.                *)
(***************************************************************************)
RECURSIVE SumOfSquares(_, _)
SumOfSquares(q, n) == IF n = 0 THEN 0 ELSE Add(SumOfSquares(q, n - 1), Mul(q[n], q[n]))

\* jerk_d and jerk_s over the ticks of a trajectory of duration T.
LateralJerk(start, end_state, ticks) ==
  SumOfSquares([n \in 1..Len(ticks) |->
                  QuinticThirdDerivative(start.d, end_state.d, ticks[n], end_state.T)],
               Len(ticks))

LongitudinalJerk(start, end_state, ticks) ==
  SumOfSquares([n \in 1..Len(ticks) |->
                  QuarticThirdDerivative(start.s_d, end_state.s_d, ticks[n], end_state.T)],
               Len(ticks))

\* A final cost with the jerk term taken off the fixed cost.
CostsLessJerk(traj, jerk_s, jerk_d) ==
  [traj EXCEPT
     !.dyn_cost = Mul(settings_.k_jerk,
                      Add(Mul(settings_.k_lon, jerk_s), Mul(settings_.k_lat, jerk_d))),
     !.final_cost = Sub(traj.fix_cost,
                        Mul(settings_.k_jerk,
                            Add(Mul(settings_.k_lon, jerk_s), Mul(settings_.k_lat, jerk_d))))]

\* dyn_cost and final_cost from the jerk sums.
WithCosts(traj, jerk_s, jerk_d) ==
  [traj EXCEPT
     !.dyn_cost = Mul(settings_.k_jerk,
                      Add(Mul(settings_.k_lon, jerk_s), Mul(settings_.k_lat, jerk_d))),
     !.final_cost = Add(traj.fix_cost,
                        Mul(settings_.k_jerk,
                            Add(Mul(settings_.k_lon, jerk_s), Mul(settings_.k_lat, jerk_d))))]

\* The samples the two loops append.
WithSamples(cell, start, ticks) ==
  [cell EXCEPT
     !.is_generated = TRUE,
     !.d = @ \o [n \in 1..Len(ticks) |->
                   QuinticPoint(start.d, cell.end_state.d, ticks[n], cell.end_state.T)],
     !.s = @ \o [n \in 1..Len(ticks) |->
                   QuarticPoint(start.s, start.s_d, cell.end_state.s_d, ticks[n],
                                cell.end_state.T)],
     !.s_d = @ \o [n \in 1..Len(ticks) |->
                     QuarticFirstDerivative(start.s_d, cell.end_state.s_d, ticks[n],
                                            cell.end_state.T)],
     !.s_dd = @ \o [n \in 1..Len(ticks) |->
                      QuarticSecondDerivative(start.s_d, cell.end_state.s_d, ticks[n],
                                              cell.end_state.T)]]

\* The else branch of getTrajAndRealCost, on the cell it generates.
GeneratedTraj(cell, start) ==
  WithCosts(WithSamples(cell, start, TicksOf(cell.end_state.T)),
            LongitudinalJerk(start, cell.end_state, TicksOf(cell.end_state.T)),
            LateralJerk(start, cell.end_state, TicksOf(cell.end_state.T)))

\* A generated trajectory stored and pushed without being counted.
StoredUncounted(st, idx, traj) ==
  [trajs |-> [st.trajs EXCEPT ![idx] = traj],
   queue |-> QueuePush(st.queue, traj),
   num |-> st.num,
   cost |-> traj.final_cost]

\* The generated trajectory stored in the grid, pushed and counted.
Stored(st, idx, traj) ==
  [trajs |-> [st.trajs EXCEPT ![idx] = traj],
   queue |-> QueuePush(st.queue, traj),
   num |-> st.num + 1,
   cost |-> traj.final_cost]

getTrajAndRealCost(st, idx, start) ==
  IF st.trajs[idx].is_generated
  THEN [st EXCEPT !.cost = st.trajs[idx].final_cost]
  ELSE Stored(st, idx, GeneratedTraj(st.trajs[idx], start))

(***************************************************************************)
(* findDirection, findGradients, findNextBest.  An index is <<i, j, k>>,   *)
(* 0-based as in the code; its dimension dim of the code is dim + 1 here.  *)
(***************************************************************************)
GridSizes == <<settings_.num_width, settings_.num_speed, settings_.num_t>>

findDirection(sizes, idx) ==
  [dim \in 1..3 |-> IF idx[dim] >= sizes[dim] - 1 THEN -1 ELSE 1]

\* A gradient that is never set to zero at a boundary.
UnclampedGradient(cost_next, cost_center, direction, at_low, at_high) ==
  IF direction >= 0 THEN cost_next - cost_center ELSE cost_center - cost_next

\* gradients(dim) from the cost of the neighbour.
GradientOf(cost_next, cost_center, direction, at_low, at_high) ==
  IF direction >= 0
  THEN (IF cost_next - cost_center >= 0 /\ at_low THEN 0 ELSE cost_next - cost_center)
  ELSE (IF cost_center - cost_next <= 0 /\ at_high THEN 0 ELSE cost_center - cost_next)

\* The loop body of findGradients for dimension dim once the neighbour is
\* generated (st1): the search state and the gradients so far.
WithGradient(st1, gradients, idx, dim, cost_center) ==
  [st |-> st1,
   gradients |-> [gradients EXCEPT ![dim] =
                    GradientOf(st1.cost, cost_center, findDirection(GridSizes, idx)[dim],
                               idx[dim] = 0, idx[dim] = GridSizes[dim] - 1)]]

\* The loop of findGradients from dimension dim on; acc = [st, gradients].
RECURSIVE GradientLoop(_, _, _, _, _)
GradientLoop(acc, idx, dim, cost_center, start) ==
  IF dim > 3 THEN acc
  ELSE GradientLoop(
         WithGradient(
           getTrajAndRealCost(acc.st,
                              [idx EXCEPT ![dim] = @ + findDirection(GridSizes, idx)[dim]],
                              start),
           acc.gradients, idx, dim, cost_center),
         idx, dim + 1, cost_center, start)

\* findGradients once the centre is generated (st0).
GradientsAround(st0, idx, start) ==
  GradientLoop([st |-> st0, gradients |-> <<0, 0, 0>>], idx, 1, st0.cost, start)

\* findGradients: [st, gradients].
findGradients(st, idx, start) ==
  GradientsAround(getTrajAndRealCost(st, idx, start), idx, start)

\* The dimension findNextBest picks: a later one only when its gradient is
\* strictly larger in magnitude.
MaxGradientDim(g) ==
  IF Abs(g[3]) > Abs(g[IF Abs(g[2]) > Abs(g[1]) THEN 2 ELSE 1])
  THEN 3
  ELSE IF Abs(g[2]) > Abs(g[1]) THEN 2 ELSE 1

\* The index findNextBest moves to: it moves in every case, by +1 when the
\* largest gradient is 0.
NextIndex(idx, g) ==
  [idx EXCEPT ![MaxGradientDim(g)] = @ + (IF g[MaxGradientDim(g)] > 0 THEN -1 ELSE 1)]

InGrid(idx) == \A dim \in 1..3 : 0 <= idx[dim] /\ idx[dim] < GridSizes[dim]

\* The else branch of findNextBest after findGradients returned r.
Moved(r, idx) == [st |-> r.st, idx |-> NextIndex(idx, r.gradients), converged |-> FALSE]

\* findNextBest on an index inside the grid: [st, idx, converged].
findNextBest(st, idx, start) ==
  IF st.trajs[idx].is_used
  THEN [st |-> st, idx |-> idx, converged |-> TRUE]
  ELSE Moved(findGradients([st EXCEPT !.trajs[idx].is_used = TRUE], idx, start), idx)

(***************************************************************************)
(* predictTrajectories.  An obstacle is [x, y, yaw, v, length, width]: its *)
(* position, the yaw getRPY extracts from its orientation, the magnitude   *)
(* of its linear velocity and its dimensions.                              *)
(***************************************************************************)

\* The loop body, n times.  Both coordinates are pushed onto x: the second
\* push is obstacle_traj.x.push_back(obstacle_traj.y.back() + ...).
RECURSIVE PredictSteps(_, _, _, _)
PredictSteps(traj, yaw, v, n) ==
  IF n = 0 THEN traj
  ELSE LET x1 == Append(traj.x, Add(Last(traj.x), Mul(Mul(v, settings_.tick_t), Cos(yaw))))
           x2 == Append(x1, Add(Last(traj.y), Mul(Mul(v, settings_.tick_t), Sin(yaw))))
       IN PredictSteps([traj EXCEPT !.x = x2, !.yaw = Append(@, yaw), !.v = Append(@, v)],
                       yaw, v, n - 1)

PredictOne(obstacle) ==
  LET steps == settings_.max_t \div settings_.tick_t
  IN PredictSteps([x |-> <<obstacle.x>>, y |-> <<obstacle.y>>,
                   yaw |-> <<obstacle.yaw>>, v |-> <<obstacle.v>>],
                  obstacle.yaw, obstacle.v, steps)

predictTrajectories(obstacles) == [i \in 1..Len(obstacles) |-> PredictOne(obstacles[i])]

(***************************************************************************)
(* checkTrajCollision, checkCollisions                                     *)
(***************************************************************************)

\* Vehicle::Lr(), the offset from the rear axle to the centre of the ego
\* rectangle.
Vehicle_Lr == 0

\* SATCollisionChecker::construct_rectangle and check_collision, for yaws
\* that are multiples of 90 degrees (any other yaw is taken as 0): the
\* rectangles overlap iff their projections on both axes do, touching
\* included.  Extents are doubled to stay in whole units.
RectExtent(yaw, length, width, margin_lon, margin_lat) ==
  LET l == length + 2 * margin_lon
      w == width + 2 * margin_lat
  IN IF yaw \notin NonFinite /\ Num(yaw) % 180 = 90
     THEN [ex |-> w, ey |-> l] ELSE [ex |-> l, ey |-> w]

RectanglesCollide(cx1, cy1, e1, cx2, cy2, e2) ==
  /\ ~Gt(2 * Abs(Num(Sub(cx1, cx2))), e1.ex + e2.ex)
  /\ ~Gt(2 * Abs(Num(Sub(cy1, cy2))), e1.ey + e2.ey)

\* What the check of obstacle i against ego tick j can come to.  Reading
\* obstacle_trajs[i].x[j], .y[j] or .yaw[j] past the end of the vector is
\* undefined behaviour: the build faults, or checks against whatever it read.
PairOutcomes(ego, obstacle_trajs, obstacles, i, j) ==
  LET ot == obstacle_trajs[i]
  IN IF j > Len(ot.x) \/ j > Len(ot.y) \/ j > Len(ot.yaw)
     THEN {"hit", "clear", "fault"}
     ELSE LET cx == Add(ego.x[j], Mul(Vehicle_Lr, Cos(ego.yaw[j])))
              cy == Add(ego.y[j], Mul(Vehicle_Lr, Sin(ego.yaw[j])))
          IN IF cx \in NonFinite \/ cy \in NonFinite \/ ot.x[j] \in NonFinite
                \/ ot.y[j] \in NonFinite
             THEN {"hit", "clear"}
             ELSE IF RectanglesCollide(
                       cx, cy,
                       RectExtent(ego.yaw[j], settings_.vehicle_length,
                                  settings_.vehicle_width, 0, 0),
                       ot.x[j], ot.y[j],
                       RectExtent(ot.yaw[j], obstacles[i].length, obstacles[i].width,
                                  settings_.safety_margin_lon, settings_.safety_margin_lat))
                  THEN {"hit"} ELSE {"clear"}

\* The outcomes of checkTrajCollision from pair number p (obstacle by
\* obstacle, tick by tick) with num_checks = n so far:
\* [kind, passed, num_checks].
RECURSIVE CollisionFrom(_, _, _, _, _)
CollisionFrom(ego, obstacle_trajs, obstacles, p, n) ==
  LET num_steps == Len(ego.x)
  IN IF p >= Len(obstacles) * num_steps
     THEN {[kind |-> "ok", passed |-> TRUE, num_checks |-> n]}
     ELSE LET o == PairOutcomes(ego, obstacle_trajs, obstacles,
                                (p \div num_steps) + 1, (p % num_steps) + 1)
          IN (IF "hit" \in o
              THEN {[kind |-> "ok", passed |-> FALSE, num_checks |-> n + 1]} ELSE {})
             \cup (IF "fault" \in o
                   THEN {[kind |-> "fault", passed |-> FALSE, num_checks |-> n + 1]} ELSE {})
             \cup (IF "clear" \in o
                   THEN CollisionFrom(ego, obstacle_trajs, obstacles, p + 1, n + 1) ELSE {})

checkTrajCollision(ego, obstacle_trajs, obstacles) ==
  CollisionFrom(ego, obstacle_trajs, obstacles, 0, 0)

\* The asynchronous branch: std::async(std::launch::async, ...) runs
\* checkTrajCollision on copies of its arguments in a thread of its own and
\* collision_check.get() waits for its result.
AsyncTask(ego, obstacle_trajs, obstacles) ==
  checkTrajCollision(ego, obstacle_trajs, obstacles)

\* What checkCollisions makes of the result r of checkTrajCollision:
\* `ego_traj.collision_passed = result.first; num_checks += result.second`.
WithCollisionResult(ego, r, num_checks) ==
  [kind |-> r.kind,
   traj |-> [ego EXCEPT !.collision_passed = r.passed],
   num_checks |-> num_checks + r.num_checks]

\* checkCollisions: the outcomes [kind, traj, num_checks].
checkCollisions(ego, obstacle_trajs, obstacles, async, num_checks) ==
  {WithCollisionResult(ego, r, num_checks) :
     r \in IF async
            THEN AsyncTask(ego, obstacle_trajs, obstacles)
            ELSE checkTrajCollision(ego, obstacle_trajs, obstacles)}

(***************************************************************************)
(* TestResult: the telemetry of the planning calls.  numbers holds the     *)
(* `length` counts of the last record and time the `length` stage times    *)
(* and, in its last slot, the total time.                                  *)
(***************************************************************************)

\* TestResult(const int length)
TestResult(length) ==
  [length |-> length, count |-> 0,
   numbers |-> [i \in 1..length |-> 0],
   numbers_min |-> [i \in 1..length |-> 100000],
   numbers_max |-> [i \in 1..length |-> 0],
   total_numbers |-> [i \in 1..length |-> 0],
   time |-> [i \in 1..(length + 1) |-> 0],
   time_min |-> [i \in 1..(length + 1) |-> 100000],
   time_max |-> [i \in 1..(length + 1) |-> 0],
   total_time |-> [i \in 1..(length + 1) |-> 0]]

\* The elapsed times of a record: one per pair of consecutive timestamps and,
\* in slot length + 1, the last timestamp less the first.
ElapsedTimes(tr, timestamps) ==
  [i \in 1..(tr.length + 1) |->
     IF i = tr.length + 1 THEN timestamps[Len(timestamps)] - timestamps[1]
     ELSE IF i < Len(timestamps) THEN timestamps[i + 1] - timestamps[i]
     ELSE tr.time[i]]

\* updateCount: the record is dropped unless it holds `length` numbers and
\* `length` + 1 timestamps.  The loops over the minima and maxima run over
\* i < length, for the times too.
updateCount(tr, numbers, timestamps) ==
  IF Len(numbers) # tr.length \/ Len(timestamps) # tr.length + 1 THEN tr
  ELSE [tr EXCEPT
          !.count = @ + 1,
          !.numbers = numbers,
          !.numbers_min = [i \in 1..tr.length |-> IF numbers[i] < @[i] THEN numbers[i] ELSE @[i]],
          !.numbers_max = [i \in 1..tr.length |-> IF numbers[i] > @[i] THEN numbers[i] ELSE @[i]],
          !.total_numbers = [i \in 1..tr.length |-> @[i] + numbers[i]],
          !.time = ElapsedTimes(tr, timestamps),
          !.time_min = [i \in 1..(tr.length + 1) |->
                          IF i <= tr.length /\ ElapsedTimes(tr, timestamps)[i] < @[i]
                          THEN ElapsedTimes(tr, timestamps)[i] ELSE @[i]],
          !.time_max = [i \in 1..(tr.length + 1) |->
                          IF i <= tr.length /\ ElapsedTimes(tr, timestamps)[i] > @[i]
                          THEN ElapsedTimes(tr, timestamps)[i] ELSE @[i]],
          !.total_time = [i \in 1..(tr.length + 1) |->
                            @[i] + ElapsedTimes(tr, timestamps)[i]]]

(***************************************************************************)
(* The planner as a state machine.                                         *)
(***************************************************************************)
VARIABLES
  pc,                    \* where the planner is (see Next)
  calls,                 \* planning calls begun so far
  cubic_spline,          \* the reference curve handed to frenetOptimalPlanning
  start_state_,          \* member: the start state of the current call
  obstacles,             \* argument: the detected obstacles
  check_collision,       \* argument
  obstacle_trajs,        \* local: predictTrajectories(obstacles)
  trajs_3d,              \* local: the sampling grid
  best_idx,              \* local: the index the search stands on
  converged,             \* local
  num_trajs_generated,   \* local
  candidate_trajs_,      \* member: the candidate queue
  num_trajs_validated,   \* local
  num_collision_checks,  \* local
  candidate_traj,        \* local: the candidate popped last
  best_traj,             \* local
  best_traj_found,       \* local
  result,                \* the vector the call returned
  use_async,             \* argument
  test_result_,          \* member: the telemetry record
  \* FrenetOptimalTrajectoryPlanning (frenet_optimal_trajectory_planning.hpp):
  frenet_paths_list,             \* argument of checkPaths and findBestPaths
  path_size,                     \* argument of checkPaths
  safest_paths,                  \* member
  close_proximity_paths,         \* member
  unsafe_paths,                  \* member
  backup_unchecked_paths,        \* member
  backup_safest_paths,           \* member
  backup_close_proximity_paths,  \* member
  backup_unsafe_paths,           \* member
  backup_paths,                  \* local of checkPaths
  safe_paths,                    \* local of checkPaths
  using_backup_paths,            \* local of checkPaths
  collision_checks,              \* local of checkPaths: the futures launched and not yet joined
  collision_check,       \* local of checkCollisions: the future of the task in flight
  right_width,           \* argument: the right lane bound
  left_width,            \* argument: the left lane bound
  returned               \* what the function applied on its own returned

\* The variables of FrenetOptimalTrajectoryPlanning.
legacy_vars ==
  <<frenet_paths_list, path_size, safest_paths, close_proximity_paths, unsafe_paths,
    backup_unchecked_paths, backup_safest_paths, backup_close_proximity_paths,
    backup_unsafe_paths, backup_paths, safe_paths, using_backup_paths, collision_checks>>

vars ==
  <<pc, calls, cubic_spline, start_state_, obstacles, check_collision, obstacle_trajs,
    trajs_3d, best_idx, converged, num_trajs_generated, candidate_trajs_,
    num_trajs_validated, num_collision_checks, candidate_traj, best_traj,
    best_traj_found, result, use_async, test_result_, legacy_vars, collision_check,
    right_width, left_width, returned>>

\* The planning calls one behaviour makes.
MaxCalls == 2

ZeroState == [T |-> 0, s |-> 0, s_d |-> 0, s_dd |-> 0, d |-> 0, d_d |-> 0, d_dd |-> 0]

\* FrenetPath()
DefaultPath == FrenetPath(<<0, 0, 0>>, ZeroState, 0, 0)

\* The lane bounds of every call: left positive, right negative.
LaneBounds == [left |-> 2, right |-> -2]

(***************************************************************************)
(* Inputs.                                                                 *)
(***************************************************************************)

\* Reference lanes: n waypoints `gap` apart along y = y0.  Five waypoints two
\* apart reach beyond every trajectory the grid holds; one apart they end
\* within reach.  RepeatedLane repeats its second waypoint.
StraightLane(n, gap, y0) ==
  [x |-> [i \in 1..n |-> (i - 1) * gap], y |-> [i \in 1..n |-> y0]]

RepeatedLane(y0) == [x |-> <<0, 2, 2, 4, 6>>, y |-> [i \in 1..5 |-> y0]]

Lanes ==
  {StraightLane(5, 2, 0), StraightLane(5, 2, 1), StraightLane(5, 1, 1), RepeatedLane(1),
   StraightLane(3, 2, 1)}

\* Start states: on the centre line at s = 0 or 1 and speed 1 or 3, and on
\* the left bound at s = 0 and speed 1.
StartAt(s, v, d) == [T |-> 0, s |-> s, s_d |-> v, s_dd |-> 0, d |-> d, d_d |-> 0, d_dd |-> 0]

StartStates == {StartAt(s, v, 0) : s \in {0, 1}, v \in {1, 3}} \cup {StartAt(0, 1, 2)}

ObstacleLists ==
  {<<>>, <<[x |-> 2, y |-> 1, yaw |-> 0, v |-> 0, length |-> 2, width |-> 2]>>,
   <<[x |-> 9, y |-> 9, yaw |-> 90, v |-> 1, length |-> 2, width |-> 2]>>}

\* The splines generateReferenceCurve can hand over: one per lane, and for a
\* lane of other than five waypoints one per content of the unwritten matrices.
ReferenceCurves ==
  UNION {{[lane |-> lane, sp |-> Spline2D(lane, garbage, garbage)] :
            garbage \in [1..Len(lane.x) -> GarbageValues]} : lane \in Lanes}

(***************************************************************************)
(* generateReferenceCurve: the spline of the lane.  (The sampled ref_path  *)
(* it also returns is not read by the planner.)                            *)
(***************************************************************************)
GenerateReferenceCurve ==
  /\ pc = "new"
  /\ cubic_spline' \in ReferenceCurves
  /\ pc' = "idle"
  /\ UNCHANGED <<calls, start_state_, obstacles, check_collision, obstacle_trajs,
                 trajs_3d, best_idx, converged, num_trajs_generated, candidate_trajs_,
                 num_trajs_validated, num_collision_checks, candidate_traj, best_traj,
                 best_traj_found, result, use_async, test_result_, legacy_vars,
                 collision_check, right_width, left_width, returned>>

(***************************************************************************)
(* frenetOptimalPlanning, stage by stage.                                  *)
(***************************************************************************)

\* Entry, and the prediction of the obstacle trajectories.  Nothing looks
\* at the reference curve, at the settings or at candidate_trajs_ here.
BeginPlanning ==
  /\ pc \in {"idle", "done"}
  /\ calls < MaxCalls
  /\ \E start \in StartStates, obs \in ObstacleLists, cc \in BOOLEAN, async \in BOOLEAN :
       /\ start_state_' = start
       /\ obstacles' = obs
       /\ check_collision' = cc
       /\ use_async' = async
       /\ obstacle_trajs' = predictTrajectories(obs)
  /\ left_width' = LaneBounds.left
  /\ right_width' = LaneBounds.right
  /\ calls' = calls + 1
  /\ pc' = "sample"
  /\ trajs_3d' = <<>>
  /\ best_idx' = <<0, 0, 0>>
  /\ converged' = FALSE
  /\ num_trajs_generated' = 0
  /\ num_trajs_validated' = 0
  /\ num_collision_checks' = 0
  /\ candidate_traj' = DefaultPath
  /\ best_traj' = DefaultPath
  /\ best_traj_found' = FALSE
  /\ result' = <<>>
  /\ UNCHANGED <<cubic_spline, candidate_trajs_, collision_check, legacy_vars,
                 test_result_, returned>>

\* sampleEndStates and the unpacking of its result.
SampleGrid ==
  /\ pc = "sample"
  /\ \E r \in sampleEndStates(start_state_, left_width, right_width,
                               start_state_.s_d) :
       /\ trajs_3d' = r.trajs
       /\ best_idx' = r.idx
  /\ pc' = "search"
  /\ UNCHANGED <<calls, cubic_spline, start_state_, obstacles, check_collision,
                 obstacle_trajs, converged, num_trajs_generated, candidate_trajs_,
                 num_trajs_validated, num_collision_checks, candidate_traj, best_traj,
                 best_traj_found, result, use_async, test_result_, legacy_vars,
                 collision_check, right_width, left_width, returned>>

\* One iteration of `while (!converged)`.  With best_idx outside the grid
\* trajs[idx(0)][idx(1)][idx(2)] reads past the end of a vector: undefined
\* behaviour; the build faults, or takes the is_used it read for true.
SearchStep ==
  /\ pc = "search"
  /\ ~converged
  /\ IF InGrid(best_idx)
     THEN \E r \in {findNextBest([trajs |-> trajs_3d, queue |-> candidate_trajs_,
                                  num |-> num_trajs_generated, cost |-> 0],
                                 best_idx, start_state_)} :
            /\ trajs_3d' = r.st.trajs
            /\ candidate_trajs_' = r.st.queue
            /\ num_trajs_generated' = r.st.num
            /\ best_idx' = r.idx
            /\ converged' = r.converged
            /\ pc' = "search"
     ELSE /\ \/ pc' = "search_fault" /\ converged' = converged
             \/ pc' = "search" /\ converged' = TRUE
          /\ UNCHANGED <<trajs_3d, candidate_trajs_, num_trajs_generated, best_idx>>
  /\ UNCHANGED <<calls, cubic_spline, start_state_, obstacles, check_collision,
                 obstacle_trajs, num_trajs_validated, num_collision_checks,
                 candidate_traj, best_traj, best_traj_found, result, use_async,
                 test_result_, legacy_vars, collision_check, right_width, left_width,
                 returned>>

\* The search loop ends; the validation locals are initialised.
SearchDone ==
  /\ pc = "search"
  /\ converged
  /\ pc' = "validate"
  /\ num_trajs_validated' = 0
  /\ num_collision_checks' = 0
  /\ best_traj' = DefaultPath
  /\ best_traj_found' = FALSE
  /\ UNCHANGED <<calls, cubic_spline, start_state_, obstacles, check_collision,
                 obstacle_trajs, trajs_3d, best_idx, converged, num_trajs_generated,
                 candidate_trajs_, candidate_traj, result, use_async, test_result_,
                 legacy_vars, collision_check, right_width, left_width, returned>>

\* A validation loop that stops one candidate short.
ValidationStopsShort(found, queue) == ~found /\ Len(queue) > 1

\* The guard of the validation loop.
ValidationContinues(found, queue) == ~found /\ queue # <<>>

\* A queue that hands out its entries in any order.
PopAnyCandidate(queue) ==
  {[traj |-> queue[n], rest |-> QueuePop(queue, n)] : n \in 1..Len(queue)}

\* candidate_trajs_.top() and pop(): the candidate taken and the queue left.
\* Which of several candidates of the same least cost is on top is the
\* heap's choice.
PopCandidate(queue) ==
  {[traj |-> queue[n], rest |-> QueuePop(queue, n)] : n \in QueueTops(queue)}

\* A validation that takes every candidate for safe whatever the checks say.
UncheckedCandidate(checked, cc, otrajs, obs, async, num_checks) ==
  {[kind |-> "ok", traj |-> checked, is_safe |-> TRUE, num_checks |-> num_checks]}

\* The body of the validation loop once checkConstraints has run.  With
\* use_async checkCollisions hands the check to a task (kind "async") and the
\* loop body goes on when the task is joined (JoinCollisionCheck).
CheckedCandidate(checked, cc, otrajs, obs, async, num_checks) ==
  IF ~checked.constraint_passed
  THEN {[kind |-> "ok", traj |-> checked, is_safe |-> FALSE, num_checks |-> num_checks]}
  ELSE IF cc /\ async
  THEN {[kind |-> "async", traj |-> checked, is_safe |-> FALSE, num_checks |-> num_checks]}
  ELSE IF cc
  THEN {[kind |-> c.kind, traj |-> c.traj,
         is_safe |-> c.kind = "ok" /\ c.traj.collision_passed,
         num_checks |-> c.num_checks] :
          c \in checkCollisions(checked, otrajs, obs, async, num_checks)}
  ELSE {[kind |-> "ok", traj |-> checked, is_safe |-> TRUE, num_checks |-> num_checks]}

\* The body of the validation loop after the pop: the outcomes
\* [kind, traj, is_safe, num_checks].
ValidateCandidate(candidate, sp2, cc, otrajs, obs, async, num_checks) ==
  UNION
    {IF r.kind # "ok"
     THEN {[kind |-> r.kind, traj |-> r.traj, is_safe |-> FALSE, num_checks |-> num_checks]}
     ELSE CheckedCandidate(checkConstraints(r.traj), cc, otrajs, obs, async, num_checks) :
       r \in convertToGlobalFrame(candidate, sp2)}

\* The future std::async returns: the task's copies of its arguments and,
\* once the task has finished, its result.
Launched(ego, otrajs, obs) ==
  [ego |-> ego, obstacle_trajs |-> otrajs, obstacles |-> obs, result |-> <<>>]

\* A future that is dropped without get().
NeverJoined(checks) == checks

\* collision_check.get() has returned and the future goes out of scope.
AfterGet(checks) == SubSeq(checks, 1, Len(checks) - 1)

\* Where the planner goes on an outcome of the loop body.
AfterOutcome(kind) ==
  CASE kind = "ok" -> "validate"
    [] kind = "async" -> "collision_check_get"
    [] kind = "throw" -> "validate_throw"
    [] OTHER -> "validate_fault"

\* One iteration of the validation loop, as far as the loop's `continue`,
\* its end, or the std::async of checkCollisions.
ValidateStep ==
  /\ pc = "validate"
  /\ ValidationContinues(best_traj_found, candidate_trajs_)
  /\ \E p \in PopCandidate(candidate_trajs_) :
       \E o \in ValidateCandidate(p.traj, cubic_spline.sp, check_collision,
                                  obstacle_trajs, obstacles, use_async,
                                  num_collision_checks) :
         /\ candidate_trajs_' = p.rest
         /\ candidate_traj' = o.traj
         /\ num_collision_checks' = o.num_checks
         /\ pc' = AfterOutcome(o.kind)
         /\ collision_check' =
              IF o.kind = "async"
              THEN Append(collision_check, Launched(o.traj, obstacle_trajs, obstacles))
              ELSE collision_check
         /\ best_traj_found' = (o.kind = "ok" /\ o.is_safe)
         /\ best_traj' = IF o.kind = "ok" /\ o.is_safe THEN o.traj ELSE best_traj
  /\ num_trajs_validated' = num_trajs_validated + 1
  /\ UNCHANGED <<calls, cubic_spline, start_state_, obstacles, check_collision,
                 obstacle_trajs, trajs_3d, best_idx, converged, num_trajs_generated,
                 result, use_async, test_result_, legacy_vars, right_width, left_width,
                 returned>>

\* The task std::async started: checkTrajCollision on the task's copies, in
\* a thread of its own.
RunCollisionTask ==
  /\ \E n \in 1..Len(collision_check) :
       /\ collision_check[n].result = <<>>
       /\ \E r \in AsyncTask(collision_check[n].ego, collision_check[n].obstacle_trajs,
                              collision_check[n].obstacles) :
            collision_check' = [collision_check EXCEPT ![n].result = <<r>>]
  /\ UNCHANGED <<pc, calls, cubic_spline, start_state_, obstacles, check_collision,
                 obstacle_trajs, trajs_3d, best_idx, converged, num_trajs_generated,
                 candidate_trajs_, num_trajs_validated, num_collision_checks,
                 candidate_traj, best_traj, best_traj_found, result, use_async,
                 test_result_, legacy_vars, right_width, left_width, returned>>

\* collision_check.get() returns once the task has finished; the rest of
\* checkCollisions and of the loop body follow.
JoinCollisionCheck ==
  /\ pc = "collision_check_get"
  /\ collision_check # <<>>
  /\ Last(collision_check).result # <<>>
  /\ \E o \in {WithCollisionResult(candidate_traj, Last(collision_check).result[1],
                                    num_collision_checks)} :
       /\ candidate_traj' = o.traj
       /\ num_collision_checks' = o.num_checks
       /\ pc' = AfterOutcome(o.kind)
       /\ best_traj_found' = (o.kind = "ok" /\ o.traj.collision_passed)
       /\ best_traj' = IF o.kind = "ok" /\ o.traj.collision_passed THEN o.traj ELSE best_traj
  /\ collision_check' = AfterGet(collision_check)
  /\ UNCHANGED <<calls, cubic_spline, start_state_, obstacles, check_collision,
                 obstacle_trajs, trajs_3d, best_idx, converged, num_trajs_generated,
                 candidate_trajs_, num_trajs_validated, result, use_async,
                 test_result_, legacy_vars, right_width, left_width, returned>>

\* The 5 counts frenetOptimalPlanning records, in the order it pushes them.
RecordedNumbers ==
  <<Len(obstacle_trajs),
    settings_.num_width * settings_.num_speed * settings_.num_t,
    num_trajs_generated, num_trajs_validated, num_collision_checks>>

\* The 6 readings of high_resolution_clock::now(): at entry and after the
\* prediction, the sampling, the search, the validation and once more.  The
\* clock is taken to advance by one unit per obstacle predicted, cell
\* sampled, cell generated and candidate validated.
RecordedTimestamps ==
  <<0,
    Len(obstacle_trajs),
    Len(obstacle_trajs) + RecordedNumbers[2],
    Len(obstacle_trajs) + RecordedNumbers[2] + num_trajs_generated,
    Len(obstacle_trajs) + RecordedNumbers[2] + num_trajs_generated + num_trajs_validated,
    Len(obstacle_trajs) + RecordedNumbers[2] + num_trajs_generated + num_trajs_validated>>

\* The validation loop ends, the call records its telemetry and returns.
ValidateDone ==
  /\ pc = "validate"
  /\ ~ValidationContinues(best_traj_found, candidate_trajs_)
  /\ test_result_' = updateCount(test_result_, RecordedNumbers, RecordedTimestamps)
  /\ result' = IF best_traj_found THEN <<best_traj>> ELSE <<>>
  /\ pc' = "done"
  /\ UNCHANGED <<calls, cubic_spline, start_state_, obstacles, check_collision,
                 obstacle_trajs, trajs_3d, best_idx, converged, num_trajs_generated,
                 candidate_trajs_, num_trajs_validated, num_collision_checks,
                 candidate_traj, best_traj, best_traj_found, use_async, legacy_vars,
                 collision_check, right_width, left_width, returned>>

Init ==
  /\ pc = "new"
  /\ calls = 0
  /\ cubic_spline = [lane |-> StraightLane(5, 2, 0),
                     sp |-> Spline2D(StraightLane(5, 2, 0), [i \in 1..5 |-> 0],
                                     [i \in 1..5 |-> 0])]
  /\ start_state_ = ZeroState
  /\ obstacles = <<>>
  /\ check_collision = FALSE
  /\ obstacle_trajs = <<>>
  /\ trajs_3d = <<>>
  /\ best_idx = <<0, 0, 0>>
  /\ converged = FALSE
  /\ num_trajs_generated = 0
  /\ candidate_trajs_ = <<>>
  /\ num_trajs_validated = 0
  /\ num_collision_checks = 0
  /\ candidate_traj = DefaultPath
  /\ best_traj = DefaultPath
  /\ best_traj_found = FALSE
  /\ result = <<>>
  /\ use_async = FALSE
  /\ test_result_ = TestResult(5)
  /\ frenet_paths_list = <<>>
  /\ path_size = 0
  /\ safest_paths = <<>>
  /\ close_proximity_paths = <<>>
  /\ unsafe_paths = <<>>
  /\ backup_unchecked_paths = <<>>
  /\ backup_safest_paths = <<>>
  /\ backup_close_proximity_paths = <<>>
  /\ backup_unsafe_paths = <<>>
  /\ backup_paths = <<>>
  /\ safe_paths = <<>>
  /\ using_backup_paths = FALSE
  /\ collision_checks = <<>>
  /\ collision_check = <<>>
  /\ right_width = LaneBounds.right
  /\ left_width = LaneBounds.left
  /\ returned = <<>>

Next ==
  \/ GenerateReferenceCurve
  \/ BeginPlanning
  \/ SampleGrid
  \/ SearchStep
  \/ SearchDone
  \/ ValidateStep
  \/ RunCollisionTask
  \/ JoinCollisionCheck
  \/ ValidateDone

Spec == Init /\ [][Next]_vars

(***************************************************************************)
(* The planner's functions on drawn inputs.  Each specification below      *)
(* starts from an input and applies one function to it; the variables the  *)
(* function does not touch keep the values of a fresh planner.             *)
(***************************************************************************)
FreshLocals ==
  /\ calls = 0
  /\ start_state_ = ZeroState
  /\ check_collision = FALSE
  /\ trajs_3d = <<>>
  /\ best_idx = <<0, 0, 0>>
  /\ converged = FALSE
  /\ num_trajs_generated = 0
  /\ candidate_trajs_ = <<>>
  /\ num_trajs_validated = 0
  /\ num_collision_checks = 0
  /\ best_traj = DefaultPath
  /\ best_traj_found = FALSE
  /\ result = <<>>
  /\ use_async = FALSE
  /\ test_result_ = TestResult(5)
  /\ frenet_paths_list = <<>>
  /\ path_size = 0
  /\ safest_paths = <<>>
  /\ close_proximity_paths = <<>>
  /\ unsafe_paths = <<>>
  /\ backup_unchecked_paths = <<>>
  /\ backup_safest_paths = <<>>
  /\ backup_close_proximity_paths = <<>>
  /\ backup_unsafe_paths = <<>>
  /\ backup_paths = <<>>
  /\ safe_paths = <<>>
  /\ using_backup_paths = FALSE
  /\ collision_checks = <<>>
  /\ collision_check = <<>>
  /\ right_width = LaneBounds.right
  /\ left_width = LaneBounds.left

\* -- checkConstraints ----------------------------------------------------

\* The ticks of a drawn trajectory.
CheckTicks == 2

\* Converted trajectories of CheckTicks ticks: one x, y, s_d and s_dd per
\* tick, and one curvature less, as convertToGlobalFrame leaves them.
CheckInputs ==
  {[DefaultPath EXCEPT !.x = x, !.y = y, !.s_d = s_d, !.s_dd = s_dd, !.c = c] :
     x \in [1..CheckTicks -> {0, 1, NaN}],
     y \in [1..CheckTicks -> {1, Inf}],
     s_d \in [1..CheckTicks -> {1, 3}],
     s_dd \in [1..CheckTicks -> {0, 3}],
     c \in [1..(CheckTicks - 1) -> {0, 90}]}

InitCheck ==
  /\ pc = "check_input"
  /\ candidate_traj \in CheckInputs
  /\ cubic_spline \in {c \in ReferenceCurves : c.lane = StraightLane(5, 2, 0)}
  /\ obstacles = <<>>
  /\ obstacle_trajs = <<>>
  /\ returned = <<>>
  /\ FreshLocals

ApplyCheckConstraints ==
  /\ pc = "check_input"
  /\ candidate_traj' = checkConstraints(candidate_traj)
  /\ pc' = "checked"
  /\ UNCHANGED <<calls, cubic_spline, start_state_, obstacles, check_collision,
                 obstacle_trajs, trajs_3d, best_idx, converged, num_trajs_generated,
                 candidate_trajs_, num_trajs_validated, num_collision_checks,
                 best_traj, best_traj_found, result, use_async, test_result_,
                 legacy_vars, collision_check, right_width, left_width, returned>>

NextCheck == ApplyCheckConstraints

CheckSpec == InitCheck /\ [][NextCheck]_vars

\* -- convertToGlobalFrame, then checkConstraints -------------------------

\* The trajectories getTrajAndRealCost generates from the start states.
ConvertInputs ==
  {GeneratedTraj(SampledCell(start, c[1], c[2], c[3], LaneBounds.left, LaneBounds.right,
                             start.s_d),
                 start) : start \in StartStates, c \in Cells}

InitConvert ==
  /\ pc = "convert_input"
  /\ cubic_spline \in ReferenceCurves
  /\ candidate_traj \in ConvertInputs
  /\ obstacles = <<>>
  /\ obstacle_trajs = <<>>
  /\ returned = <<>>
  /\ FreshLocals

ApplyConversion ==
  /\ pc = "convert_input"
  /\ \E o \in convertToGlobalFrame(candidate_traj, cubic_spline.sp) :
       /\ candidate_traj' = IF o.kind = "ok" THEN checkConstraints(o.traj) ELSE o.traj
       /\ pc' = CASE o.kind = "ok" -> "converted"
                  [] o.kind = "throw" -> "convert_throw"
                  [] OTHER -> "convert_fault"
  /\ UNCHANGED <<calls, cubic_spline, start_state_, obstacles, check_collision,
                 obstacle_trajs, trajs_3d, best_idx, converged, num_trajs_generated,
                 candidate_trajs_, num_trajs_validated, num_collision_checks,
                 best_traj, best_traj_found, result, use_async, test_result_,
                 legacy_vars, collision_check, right_width, left_width, returned>>

NextConvert == ApplyConversion

ConvertSpec == InitConvert /\ [][NextConvert]_vars

\* -- predictTrajectories -------------------------------------------------

\* The obstacles of a drawn list.
MaxObstacles == 1

ObstacleValues ==
  {[x |-> x, y |-> y, yaw |-> yaw, v |-> v, length |-> 2, width |-> 2] :
     x \in {0, 1, 2}, y \in {0, 1, 2}, yaw \in {0, 90, 180, 270}, v \in {0, 1, 2}}

InitPredict ==
  /\ pc = "predict_input"
  /\ obstacles \in UNION {[1..n -> ObstacleValues] : n \in 0..MaxObstacles}
  /\ obstacle_trajs = <<>>
  /\ cubic_spline \in {c \in ReferenceCurves : c.lane = StraightLane(5, 2, 0)}
  /\ candidate_traj = DefaultPath
  /\ returned = <<>>
  /\ FreshLocals

ApplyPredictTrajectories ==
  /\ pc = "predict_input"
  /\ obstacle_trajs' = predictTrajectories(obstacles)
  /\ pc' = "predicted"
  /\ UNCHANGED <<calls, cubic_spline, start_state_, obstacles, check_collision,
                 trajs_3d, best_idx, converged, num_trajs_generated, candidate_trajs_,
                 num_trajs_validated, num_collision_checks, candidate_traj, best_traj,
                 best_traj_found, result, use_async, test_result_, legacy_vars,
                 collision_check, right_width, left_width, returned>>

NextPredict == ApplyPredictTrajectories

PredictSpec == InitPredict /\ [][NextPredict]_vars

\* -- checkCollisions -----------------------------------------------------

\* Ego trajectories as the validation loop hands them over: generated, then
\* converted on the lane along y = 1.
CollideEgos ==
  {o.traj : o \in {r \in UNION {convertToGlobalFrame(t, c.sp) :
                                  t \in ConvertInputs,
                                  c \in {k \in ReferenceCurves :
                                           k.lane = StraightLane(5, 2, 1)}} :
                     r.kind = "ok"}}

\* Obstacles on the lane and away from it, standing or moving.
CollideObstacles ==
  {[x |-> x, y |-> y, yaw |-> yaw, v |-> v, length |-> 2, width |-> 2] :
     x \in {0, 4}, y \in {1, 9}, yaw \in {0, 90}, v \in {0, 1}}

InitCollide ==
  /\ pc = "collide_input"
  /\ candidate_traj \in CollideEgos
  /\ obstacles \in UNION {[1..n -> CollideObstacles] : n \in 0..MaxObstacles}
  /\ obstacle_trajs = predictTrajectories(obstacles)
  /\ cubic_spline \in {c \in ReferenceCurves : c.lane = StraightLane(5, 2, 1)}
  /\ use_async \in BOOLEAN
  /\ test_result_ = TestResult(5)
  /\ frenet_paths_list = <<>>
  /\ path_size = 0
  /\ safest_paths = <<>>
  /\ close_proximity_paths = <<>>
  /\ unsafe_paths = <<>>
  /\ backup_unchecked_paths = <<>>
  /\ backup_safest_paths = <<>>
  /\ backup_close_proximity_paths = <<>>
  /\ backup_unsafe_paths = <<>>
  /\ backup_paths = <<>>
  /\ safe_paths = <<>>
  /\ using_backup_paths = FALSE
  /\ collision_checks = <<>>
  /\ collision_check = <<>>
  /\ right_width = LaneBounds.right
  /\ left_width = LaneBounds.left
  /\ returned = <<>>
  /\ calls = 0
  /\ start_state_ = ZeroState
  /\ check_collision = TRUE
  /\ trajs_3d = <<>>
  /\ best_idx = <<0, 0, 0>>
  /\ converged = FALSE
  /\ num_trajs_generated = 0
  /\ candidate_trajs_ = <<>>
  /\ num_trajs_validated = 0
  /\ num_collision_checks = 0
  /\ best_traj = DefaultPath
  /\ best_traj_found = FALSE
  /\ result = <<>>

ApplyCheckCollisions ==
  /\ pc = "collide_input"
  /\ \E o \in checkCollisions(candidate_traj, obstacle_trajs, obstacles, use_async,
                              num_collision_checks) :
       /\ candidate_traj' = o.traj
       /\ num_collision_checks' = o.num_checks
       /\ returned' = IF o.kind = "ok" THEN <<o.traj.collision_passed>> ELSE <<>>
       /\ pc' = IF o.kind = "ok" THEN "collided" ELSE "collide_fault"
  /\ UNCHANGED <<calls, cubic_spline, start_state_, obstacles, check_collision,
                 obstacle_trajs, trajs_3d, best_idx, converged, num_trajs_generated,
                 candidate_trajs_, num_trajs_validated, best_traj, best_traj_found,
                 result, use_async, test_result_, legacy_vars, collision_check,
                 right_width, left_width>>

NextCollide == ApplyCheckCollisions

CollideSpec == InitCollide /\ [][NextCollide]_vars

\* -- Spline2D::calculatePosition at a knot --------------------------------

\* The waypoints of a lane along y = y0 whose spacings are gaps.
RECURSIVE LaneAlong(_, _, _)
LaneAlong(gaps, n, y0) ==
  IF n = 0 THEN [x |-> <<0>>, y |-> <<y0>>]
  ELSE [x |-> Append(LaneAlong(gaps, n - 1, y0).x,
                     Last(LaneAlong(gaps, n - 1, y0).x) + gaps[n]),
        y |-> Append(LaneAlong(gaps, n - 1, y0).y, y0)]

\* Lanes of five waypoints one or two apart, and of three: their arc
\* lengths s_, the knots of both splines, are strictly increasing.
SplineLanes ==
  {LaneAlong(gaps, 4, y0) : gaps \in [1..4 -> {1, 2}], y0 \in {0, 1}}
    \cup {StraightLane(3, 2, 1)}

InitSpline ==
  /\ pc = "spline_input"
  /\ cubic_spline \in UNION {{[lane |-> lane, sp |-> Spline2D(lane, garbage, garbage)] :
                                garbage \in [1..Len(lane.x) -> GarbageValues]} :
                               lane \in SplineLanes}
  /\ candidate_traj = DefaultPath
  /\ obstacles = <<>>
  /\ obstacle_trajs = <<>>
  /\ returned = <<>>
  /\ FreshLocals

\* calculatePosition(s_[i]) for a knot i: returned = <<i, position>>.
ApplyCalculatePosition ==
  /\ pc = "spline_input"
  /\ \E i \in 1..Len(cubic_spline.sp.s_) :
       returned' = <<i, calculatePosition(cubic_spline.sp, cubic_spline.sp.s_[i])>>
  /\ pc' = "spline_value"
  /\ UNCHANGED <<calls, cubic_spline, start_state_, obstacles, check_collision,
                 obstacle_trajs, trajs_3d, best_idx, converged, num_trajs_generated,
                 candidate_trajs_, num_trajs_validated, num_collision_checks,
                 candidate_traj, best_traj, best_traj_found, result, use_async,
                 test_result_, legacy_vars, collision_check, right_width, left_width>>

NextSpline == ApplyCalculatePosition

SplineSpec == InitSpline /\ [][NextSpline]_vars

\* -- sampleEndStates ------------------------------------------------------

\* Start states on and off the lane, from standstill to beyond highest_speed;
\* start_state_.s_d stands for the argument current_speed.
SampleStarts == {StartAt(0, v, d) : v \in 0..5, d \in -4..4}

\* Lane bounds on either side of center_offset, the lane symmetric about it
\* or not.
SampleBounds ==
  {b \in [left : {2, 4}, right : {-4, -2}] :
     b.left > settings_.center_offset /\ settings_.center_offset > b.right}

InitSample ==
  /\ pc = "sample_input"
  /\ start_state_ \in SampleStarts
  /\ cubic_spline \in {c \in ReferenceCurves : c.lane = StraightLane(5, 2, 0)}
  /\ candidate_traj = DefaultPath
  /\ obstacles = <<>>
  /\ obstacle_trajs = <<>>
  /\ returned = <<>>
  /\ calls = 0
  /\ check_collision = FALSE
  /\ trajs_3d = <<>>
  /\ best_idx = <<0, 0, 0>>
  /\ converged = FALSE
  /\ num_trajs_generated = 0
  /\ candidate_trajs_ = <<>>
  /\ num_trajs_validated = 0
  /\ num_collision_checks = 0
  /\ best_traj = DefaultPath
  /\ best_traj_found = FALSE
  /\ result = <<>>
  /\ use_async = FALSE
  /\ test_result_ = TestResult(5)
  /\ frenet_paths_list = <<>>
  /\ path_size = 0
  /\ safest_paths = <<>>
  /\ close_proximity_paths = <<>>
  /\ unsafe_paths = <<>>
  /\ backup_unchecked_paths = <<>>
  /\ backup_safest_paths = <<>>
  /\ backup_close_proximity_paths = <<>>
  /\ backup_unsafe_paths = <<>>
  /\ backup_paths = <<>>
  /\ safe_paths = <<>>
  /\ using_backup_paths = FALSE
  /\ collision_checks = <<>>
  /\ collision_check = <<>>
  /\ \E b \in SampleBounds : left_width = b.left /\ right_width = b.right

ApplySampleEndStates ==
  /\ pc = "sample_input"
  /\ \E r \in sampleEndStates(start_state_, left_width, right_width,
                               start_state_.s_d) :
       /\ trajs_3d' = r.trajs
       /\ best_idx' = r.idx
  /\ pc' = "sampled"
  /\ UNCHANGED <<calls, cubic_spline, start_state_, obstacles, check_collision,
                 obstacle_trajs, converged, num_trajs_generated, candidate_trajs_,
                 num_trajs_validated, num_collision_checks, candidate_traj, best_traj,
                 best_traj_found, result, use_async, test_result_, legacy_vars,
                 collision_check, right_width, left_width, returned>>

NextSample == ApplySampleEndStates

SampleSpec == InitSample /\ [][NextSample]_vars

\* -- findGradients --------------------------------------------------------

\* findGradients on a freshly sampled grid, at any of its cells:
\* returned = the gradients.
InitGradient ==
  /\ pc = "gradient_input"
  /\ start_state_ \in StartStates
  /\ \E r \in sampleEndStates(start_state_, LaneBounds.left, LaneBounds.right,
                               start_state_.s_d) : trajs_3d = r.trajs
  /\ best_idx \in Cells
  /\ cubic_spline \in {c \in ReferenceCurves : c.lane = StraightLane(5, 2, 0)}
  /\ candidate_traj = DefaultPath
  /\ obstacles = <<>>
  /\ obstacle_trajs = <<>>
  /\ returned = <<>>
  /\ calls = 0
  /\ check_collision = FALSE
  /\ converged = FALSE
  /\ num_trajs_generated = 0
  /\ candidate_trajs_ = <<>>
  /\ num_trajs_validated = 0
  /\ num_collision_checks = 0
  /\ best_traj = DefaultPath
  /\ best_traj_found = FALSE
  /\ result = <<>>
  /\ use_async = FALSE
  /\ test_result_ = TestResult(5)
  /\ frenet_paths_list = <<>>
  /\ path_size = 0
  /\ safest_paths = <<>>
  /\ close_proximity_paths = <<>>
  /\ unsafe_paths = <<>>
  /\ backup_unchecked_paths = <<>>
  /\ backup_safest_paths = <<>>
  /\ backup_close_proximity_paths = <<>>
  /\ backup_unsafe_paths = <<>>
  /\ backup_paths = <<>>
  /\ safe_paths = <<>>
  /\ using_backup_paths = FALSE
  /\ collision_checks = <<>>
  /\ collision_check = <<>>
  /\ right_width = LaneBounds.right
  /\ left_width = LaneBounds.left

ApplyFindGradients ==
  /\ pc = "gradient_input"
  /\ \E r \in {findGradients([trajs |-> trajs_3d, queue |-> candidate_trajs_,
                              num |-> num_trajs_generated, cost |-> 0],
                             best_idx, start_state_)} :
       /\ trajs_3d' = r.st.trajs
       /\ candidate_trajs_' = r.st.queue
       /\ num_trajs_generated' = r.st.num
       /\ returned' = r.gradients
  /\ pc' = "gradients"
  /\ UNCHANGED <<calls, cubic_spline, start_state_, obstacles, check_collision,
                 obstacle_trajs, best_idx, converged, num_trajs_validated,
                 num_collision_checks, candidate_traj, best_traj, best_traj_found,
                 result, use_async, test_result_, legacy_vars, collision_check,
                 right_width, left_width>>

NextGradient == ApplyFindGradients

GradientSpec == InitGradient /\ [][NextGradient]_vars

(***************************************************************************)
(* FrenetOptimalTrajectoryPlanning, the planner of                         *)
(* frenet_optimal_trajectory_planning.hpp: checkPaths and findBestPaths.   *)
(* A path is a record of the fields the two functions read: lane_id, cf,   *)
(* s_d, s_dd, c, curvature_check, and clearance, which stands for x, y and *)
(* yaw against the obstacles: 0 when the vehicle rectangle meets an        *)
(* obstacle hull somewhere along the path, 1 when only the rectangle with  *)
(* the soft safety margin does, 2 when neither does.                       *)
(***************************************************************************)

\* The settings checkPaths reads; max_curvature_change is
\* steering_angle_rate / Vehicle::Lr() * tick_t - 0.0005.
legacy_settings_ ==
  [max_speed |-> 2, max_accel |-> 2, max_decel |-> -2, max_curvature_change |-> 10,
   k_obstacle |-> 1]

\* The paths a list is drawn from, as generateFrenetPaths and
\* calculateGlobalPaths leave them: 3 ticks, curvature_check set.
LegacyPaths ==
  {[lane_id |-> 1, cf |-> 1, s_d |-> p.s_d, s_dd |-> p.s_dd, c |-> p.c,
    curvature_check |-> TRUE, clearance |-> p.clearance] :
     p \in [s_d : {<<1, 1, 1>>}, s_dd : {<<0, 0, 0>>}, c : {<<0, 0>>, <<0, 20>>},
            clearance : 0..2]
           \cup [s_d : {<<1, 3, 1>>}, s_dd : {<<0, 0, 0>>}, c : {<<0, 0>>}, clearance : {2}]
           \cup [s_d : {<<1, 1, 1>>}, s_dd : {<<0, -3, 0>>}, c : {<<0, 0>>}, clearance : {2}]}

\* The lists of at most MaxPaths different paths.
MaxPaths == 3

LegacyPathLists ==
  UNION {{l \in [1..n -> LegacyPaths] : \A i, j \in 1..n : i # j => l[i] # l[j]} :
           n \in 0..MaxPaths}

\* The first loop over a path: `safe` stays true.
WithinSpeedAndAccel(path) ==
  \A j \in 1..Len(path.c) :
    /\ ~(path.s_d[j] > legacy_settings_.max_speed)
    /\ ~(path.s_dd[j] > legacy_settings_.max_accel
         \/ path.s_dd[j] < legacy_settings_.max_decel)

\* The second loop: the copy of the path with curvature_check cleared when
\* the curvature changes too fast between two of the first size waypoints.
CurvatureChecked(path, size) ==
  [path EXCEPT !.curvature_check =
     @ /\ \A j \in 2..Len(path.c) :
            (j - 1 < size) =>
              ~(Abs(path.c[j] - path.c[j - 1]) > legacy_settings_.max_curvature_change)]

\* A collision check that passes every path.
AlwaysClear(path, margin) == TRUE

\* checkPathCollision: false if there is a collision along the path.
checkPathCollision(path, margin) ==
  CASE margin = "no" -> path.clearance > 0
    [] margin = "soft" -> path.clearance > 1
    [] OTHER -> TRUE

\* The futures of one std::async per path, in the order of the paths.
Futures(paths, margin) ==
  [k \in 1..Len(paths) |-> [path |-> paths[k], margin |-> margin, result |-> <<>>]]

\* The paths of the futures whose get() gave `value`, in order.
RECURSIVE PathsWith(_, _)
PathsWith(checks, value) ==
  IF checks = <<>> THEN <<>>
  ELSE (IF checks[1].result = <<value>> THEN <<checks[1].path>> ELSE <<>>)
       \o PathsWith(Tail(checks), value)

\* A list that is not cleared.
NotCleared(list) == list

\* std::vector::clear()
Cleared(list) == <<>>

\* The paths of a list with the obstacle cost added to cf.
Penalised(paths) ==
  [k \in 1..Len(paths) |->
     [paths[k] EXCEPT !.cf = @ + legacy_settings_.k_obstacle * 100]]

\* The planner's other variables, which checkPaths and findBestPaths leave
\* alone.
planner_vars ==
  <<cubic_spline, start_state_, obstacles, check_collision, obstacle_trajs, trajs_3d,
    best_idx, converged, num_trajs_generated, candidate_trajs_, num_trajs_validated,
    num_collision_checks, candidate_traj, best_traj, best_traj_found, result, use_async,
    test_result_, collision_check, right_width, left_width>>

\* checkPaths from its entry to the launch of the collision checks of the
\* paths that passed the constraints.
CheckPathConstraints ==
  /\ pc \in {"paths_idle", "paths_checked"}
  /\ calls < MaxCalls
  /\ calls' = calls + 1
  /\ \E paths \in LegacyPathLists, size \in {1, 3} :
       /\ frenet_paths_list' = paths
       /\ path_size' = size
       /\ unsafe_paths' =
            Cleared(unsafe_paths) \o SelectSeq(paths, LAMBDA p : ~WithinSpeedAndAccel(p))
       /\ backup_paths' =
            SelectSeq([k \in 1..Len(paths) |-> CurvatureChecked(paths[k], size)],
                      LAMBDA p : WithinSpeedAndAccel(p) /\ ~p.curvature_check)
       /\ collision_checks' =
            Futures(SelectSeq([k \in 1..Len(paths) |-> CurvatureChecked(paths[k], size)],
                              LAMBDA p : WithinSpeedAndAccel(p) /\ p.curvature_check),
                    "no")
  /\ backup_unchecked_paths' = Cleared(backup_unchecked_paths) \o backup_paths'
  /\ safest_paths' = Cleared(safest_paths)
  /\ close_proximity_paths' = Cleared(close_proximity_paths)
  /\ backup_safest_paths' = Cleared(backup_safest_paths)
  /\ backup_close_proximity_paths' = Cleared(backup_close_proximity_paths)
  /\ backup_unsafe_paths' = Cleared(backup_unsafe_paths)
  /\ safe_paths' = <<>>
  /\ using_backup_paths' = FALSE
  /\ returned' = <<>>
  /\ pc' = "collision_checks_get"
  /\ UNCHANGED planner_vars

\* A task std::async started: checkPathCollision on its copy of the path,
\* in a thread of its own.
RunPathTask ==
  /\ \E n \in 1..Len(collision_checks) :
       /\ collision_checks[n].result = <<>>
       /\ collision_checks' =
            [collision_checks EXCEPT
               ![n].result = <<checkPathCollision(collision_checks[n].path,
                                                  collision_checks[n].margin)>>]
  /\ UNCHANGED <<pc, calls, returned, planner_vars, frenet_paths_list, path_size,
                 safest_paths, close_proximity_paths, unsafe_paths,
                 backup_unchecked_paths, backup_safest_paths,
                 backup_close_proximity_paths, backup_unsafe_paths, backup_paths,
                 safe_paths, using_backup_paths>>

\* The loop over collision_checks: get() on every future in turn, which
\* returns once its task has; then, with no safe path, the launch of the
\* checks of the backup paths, else the launch of the soft-margin checks.
JoinCollisionChecks ==
  /\ pc = "collision_checks_get"
  /\ \A n \in 1..Len(collision_checks) : collision_checks[n].result # <<>>
  /\ unsafe_paths' = unsafe_paths \o PathsWith(collision_checks, FALSE)
  /\ safe_paths' = PathsWith(collision_checks, TRUE)
  /\ IF safe_paths' = <<>>
     THEN /\ using_backup_paths' = TRUE
          /\ backup_unchecked_paths' = Cleared(backup_unchecked_paths)
          /\ collision_checks' = Futures(backup_paths, "no")
          /\ pc' = "backup_collision_checks_get"
     ELSE /\ UNCHANGED <<using_backup_paths, backup_unchecked_paths>>
          /\ collision_checks' = Futures(safe_paths', "soft")
          /\ pc' = "soft_margin_collision_checks_get"
  /\ UNCHANGED <<calls, returned, planner_vars, frenet_paths_list, path_size,
                 safest_paths, close_proximity_paths, backup_safest_paths,
                 backup_close_proximity_paths, backup_unsafe_paths, backup_paths>>

\* The loop over backup_collision_checks, and the launch of the soft-margin
\* checks.
JoinBackupChecks ==
  /\ pc = "backup_collision_checks_get"
  /\ \A n \in 1..Len(collision_checks) : collision_checks[n].result # <<>>
  /\ backup_unsafe_paths' = backup_unsafe_paths \o PathsWith(collision_checks, FALSE)
  /\ safe_paths' = safe_paths \o PathsWith(collision_checks, TRUE)
  /\ collision_checks' = Futures(safe_paths', "soft")
  /\ pc' = "soft_margin_collision_checks_get"
  /\ UNCHANGED <<calls, returned, planner_vars, frenet_paths_list, path_size,
                 safest_paths, close_proximity_paths, unsafe_paths,
                 backup_unchecked_paths, backup_safest_paths,
                 backup_close_proximity_paths, backup_paths, using_backup_paths>>

\* The loop over soft_margin_collision_checks, and the return of safe_paths.
JoinSoftMarginChecks ==
  /\ pc = "soft_margin_collision_checks_get"
  /\ \A n \in 1..Len(collision_checks) : collision_checks[n].result # <<>>
  /\ safe_paths' =
       [k \in 1..Len(safe_paths) |->
          IF collision_checks[k].result = <<FALSE>>
          THEN Penalised(safe_paths)[k] ELSE safe_paths[k]]
  /\ IF using_backup_paths
     THEN /\ backup_close_proximity_paths' =
               backup_close_proximity_paths
                 \o Penalised(PathsWith(collision_checks, FALSE))
          /\ backup_safest_paths' = backup_safest_paths \o PathsWith(collision_checks, TRUE)
          /\ UNCHANGED <<close_proximity_paths, safest_paths>>
     ELSE /\ close_proximity_paths' =
               close_proximity_paths \o Penalised(PathsWith(collision_checks, FALSE))
          /\ safest_paths' = safest_paths \o PathsWith(collision_checks, TRUE)
          /\ UNCHANGED <<backup_close_proximity_paths, backup_safest_paths>>
  /\ collision_checks' = <<>>
  /\ returned' = <<safe_paths'>>
  /\ pc' = "paths_checked"
  /\ UNCHANGED <<calls, planner_vars, frenet_paths_list, path_size, unsafe_paths,
                 backup_unchecked_paths, backup_unsafe_paths, backup_paths,
                 using_backup_paths>>

InitLegacy ==
  /\ pc = "paths_idle"
  /\ cubic_spline \in {c \in ReferenceCurves : c.lane = StraightLane(5, 2, 0)}
  /\ candidate_traj = DefaultPath
  /\ obstacles = <<>>
  /\ obstacle_trajs = <<>>
  /\ returned = <<>>
  /\ FreshLocals

NextLegacy ==
  \/ CheckPathConstraints
  \/ RunPathTask
  \/ JoinCollisionChecks
  \/ JoinBackupChecks
  \/ JoinSoftMarginChecks

LegacySpec == InitLegacy /\ [][NextLegacy]_vars

(***************************************************************************)
(* findBestPaths of the legacy planner, applied to a list of paths          *)
(* (BestPathSpec).                                                          *)
(***************************************************************************)

\* The value min_cost starts with.
LargeCost == 1000000000

\* agv::common::FrenetPath(): the path returned for an empty list.
EmptyFrenetPath ==
  [lane_id |-> "unset", cf |-> 0, s_d |-> <<>>, s_dd |-> <<>>, c |-> <<>>,
   curvature_check |-> FALSE, clearance |-> 0]

\* The paths the lists are drawn from: the lane ids generateFrenetPaths
\* gives to the transition area, the left and the right lane, and costs
\* below and above the value min_cost starts with.
BestPathCandidates ==
  {[lane_id |-> l, cf |-> cost, s_d |-> <<1, 1, 1>>, s_dd |-> <<0, 0, 0>>,
    c |-> <<0, 0>>, curvature_check |-> TRUE, clearance |-> 2] :
     l \in 0..2, cost \in {1, 2, LargeCost + 1}}

BestPathLists == UNION {[1..n -> BestPathCandidates] : n \in 0..MaxPaths}

\* The loop of findBestPath from index i on: the value of best_path_id
\* after it.
RECURSIVE BestPathId(_, _, _, _, _)
BestPathId(paths, target_lane_id, i, min_cost, best_path_id) ==
  IF i > Len(paths) THEN best_path_id
  ELSE IF paths[i].lane_id = target_lane_id /\ min_cost >= paths[i].cf
       THEN BestPathId(paths, target_lane_id, i + 1, paths[i].cf, i)
       ELSE BestPathId(paths, target_lane_id, i + 1, min_cost, best_path_id)

\* findBestPath; the index best_path_id starts with is that of the first
\* path of the list.
findBestPath(paths, target_lane_id) ==
  IF paths # <<>>
  THEN paths[BestPathId(paths, target_lane_id, 1, LargeCost, 1)]
  ELSE EmptyFrenetPath

\* findBestPaths: the best path of the transition area, of the left lane
\* and of the right lane.
findBestPaths(paths) ==
  <<findBestPath(paths, 0), findBestPath(paths, 1), findBestPath(paths, 2)>>

ApplyFindBestPaths ==
  /\ pc = "best_paths_idle"
  /\ returned' = <<findBestPaths(frenet_paths_list)>>
  /\ pc' = "best_paths_found"
  /\ UNCHANGED <<calls, planner_vars, frenet_paths_list, path_size, safest_paths,
                 close_proximity_paths, unsafe_paths, backup_unchecked_paths,
                 backup_safest_paths, backup_close_proximity_paths, backup_unsafe_paths,
                 backup_paths, safe_paths, using_backup_paths, collision_checks>>

InitBestPath ==
  /\ pc = "best_paths_idle"
  /\ cubic_spline \in {c \in ReferenceCurves : c.lane = StraightLane(5, 2, 0)}
  /\ candidate_traj = DefaultPath
  /\ obstacles = <<>>
  /\ obstacle_trajs = <<>>
  /\ returned = <<>>
  /\ frenet_paths_list \in BestPathLists
  /\ calls = 0
  /\ start_state_ = ZeroState
  /\ check_collision = FALSE
  /\ trajs_3d = <<>>
  /\ best_idx = <<0, 0, 0>>
  /\ converged = FALSE
  /\ num_trajs_generated = 0
  /\ candidate_trajs_ = <<>>
  /\ num_trajs_validated = 0
  /\ num_collision_checks = 0
  /\ best_traj = DefaultPath
  /\ best_traj_found = FALSE
  /\ result = <<>>
  /\ use_async = FALSE
  /\ test_result_ = TestResult(5)
  /\ path_size = 0
  /\ safest_paths = <<>>
  /\ close_proximity_paths = <<>>
  /\ unsafe_paths = <<>>
  /\ backup_unchecked_paths = <<>>
  /\ backup_safest_paths = <<>>
  /\ backup_close_proximity_paths = <<>>
  /\ backup_unsafe_paths = <<>>
  /\ backup_paths = <<>>
  /\ safe_paths = <<>>
  /\ using_backup_paths = FALSE
  /\ collision_checks = <<>>
  /\ collision_check = <<>>
  /\ right_width = LaneBounds.right
  /\ left_width = LaneBounds.left

BestPathSpec == InitBestPath /\ [][ApplyFindBestPaths]_vars

(***************************************************************************)
(* Properties of frenetOptimalPlanning (Spec).                             *)
(***************************************************************************)

\* C1: a call returns no trajectory or one; the one it returns is the
\* candidate this call validated last, it passed checkConstraints, and with
\* check_collision set it passed checkCollisions.
C1_ReturnsValidatedOrNothing ==
  /\ Len(result) <= 1
  /\ result # <<>> =>
       /\ pc = "done"
       /\ num_trajs_validated >= 1
       /\ result[1] = candidate_traj
       /\ result[1].constraint_passed
       /\ check_collision => result[1].collision_passed

\* A call with collision checking against an obstacle returned a trajectory.
C1_Witness ==
  /\ pc = "done"
  /\ result # <<>>
  /\ check_collision
  /\ num_collision_checks > 0

\* C2: within a call every pop takes a candidate whose final_cost is not
\* below that of the candidate popped before it and not above that of any
\* candidate left in the queue; so the trajectory returned costs no more
\* than any candidate still queued.
C2_PoppedInCostOrder ==
  [][(pc = "validate" /\ num_trajs_validated' = num_trajs_validated + 1) =>
       /\ num_trajs_validated >= 1 => candidate_traj'.final_cost >= candidate_traj.final_cost
       /\ \A n \in 1..Len(candidate_trajs_') :
            candidate_trajs_'[n].final_cost >= candidate_traj'.final_cost]_vars

\* A call returned the third candidate it popped, leaving dearer ones queued.
C2_Witness ==
  /\ pc = "done"
  /\ result # <<>>
  /\ num_trajs_validated >= 3
  /\ \E n \in 1..Len(candidate_trajs_) :
       candidate_trajs_[n].final_cost > result[1].final_cost

\* C3: the search loop terminates: from every grid, seed and costs it ends
\* by findNextBest returning true, never inside findNextBest.
C3_SearchTerminates == pc # "search_fault"

\* C4: the candidate queue is empty when a call begins.
C4_QueueEmptyAtCallStart == pc = "sample" => candidate_trajs_ = <<>>

\* C5: each iteration of the validation loop pops exactly one candidate, and
\* a loop that ends with no candidate found has emptied the queue and
\* returns the empty vector.
C5_AllFailReturnsEmpty ==
  [][/\ (pc = "validate" /\ pc' \in {"validate", "collision_check_get"}) =>
          /\ Len(candidate_trajs_') = Len(candidate_trajs_) - 1
          /\ num_trajs_validated' = num_trajs_validated + 1
     /\ pc = "collision_check_get" =>
          /\ candidate_trajs_' = candidate_trajs_
          /\ num_trajs_validated' = num_trajs_validated
     /\ (pc = "validate" /\ pc' = "done" /\ ~best_traj_found) =>
          /\ candidate_trajs_ = <<>>
          /\ result' = <<>>]_vars

\* A call whose candidates all failed, one of them in the collision check.
C5_Witness ==
  /\ pc = "done"
  /\ result = <<>>
  /\ num_trajs_validated >= 2
  /\ num_collision_checks > 0

\* A lane is valid input when it has at least 3 waypoints and no two
\* consecutive waypoints coincide.
ValidLane(lane) ==
  /\ Len(lane.x) >= 3
  /\ \A i \in 1..(Len(lane.x) - 1) : lane.x[i] # lane.x[i + 1] \/ lane.y[i] # lane.y[i + 1]

\* C6: with an invalid lane (fewer than 3 waypoints, or two consecutive
\* waypoints equal) no cell is sampled or generated.
C6_InvalidLaneNotSampled ==
  (pc # "new" /\ ~ValidLane(cubic_spline.lane)) =>
    /\ trajs_3d = <<>>
    /\ num_trajs_generated = 0

\* C8: on the straight lane along y = 0, with no obstacles and a start at
\* s = 0, d = 0 within the speed limit, the first call of a planner returns
\* a trajectory.
C8_StraightRoadPlans ==
  (/\ pc = "done"
   /\ calls = 1
   /\ cubic_spline.lane = StraightLane(5, 2, 0)
   /\ obstacles = <<>>
   /\ start_state_.s = 0
   /\ start_state_.d = 0
   /\ start_state_.s_d <= settings_.max_speed) => result # <<>>

\* The cells of the grid that are generated.
GeneratedCells(grid) == {c \in DOMAIN grid : grid[c].is_generated}

CostNotBelowFix(traj) ==
  /\ traj.final_cost # NaN /\ traj.fix_cost # NaN
  /\ ~Lt(traj.final_cost, traj.fix_cost)

\* C13: every generated cell of the grid and every candidate in the queue
\* has final_cost >= fix_cost, and so has the candidate popped last.
C13_FinalCostAtLeastFixCost ==
  /\ \A c \in GeneratedCells(trajs_3d) : CostNotBelowFix(trajs_3d[c])
  /\ \A n \in 1..Len(candidate_trajs_) : CostNotBelowFix(candidate_trajs_[n])
  /\ num_trajs_validated > 0 => CostNotBelowFix(candidate_traj)

\* The search generated a cell whose jerk adds to its fixed cost, and one
\* whose jerk is 0.
C13_Witness ==
  /\ pc = "search"
  /\ \E c \in GeneratedCells(trajs_3d) :
       /\ trajs_3d[c].dyn_cost > 0
       /\ trajs_3d[c].final_cost > trajs_3d[c].fix_cost
  /\ \E c \in GeneratedCells(trajs_3d) : trajs_3d[c].final_cost = trajs_3d[c].fix_cost

\* The real cost of a cell: its final_cost, computed if the search has not
\* generated the cell yet.
RealCost(grid, idx, start) ==
  IF grid[idx].is_generated THEN grid[idx].final_cost
  ELSE GeneratedTraj(grid[idx], start).final_cost

\* C16: every step of findNextBest that moves the index moves it to a cell
\* of the grid whose real cost is not above that of the cell it leaves.
C16_DescentNonincreasing ==
  [][(pc = "search" /\ pc' = "search" /\ best_idx' # best_idx) =>
       /\ InGrid(best_idx')
       /\ ~Gt(RealCost(trajs_3d', best_idx', start_state_),
              RealCost(trajs_3d', best_idx, start_state_))]_vars

\* Where the index stands after a step that found the gradients g: one
\* cell down the largest gradient, or where it stood if that gradient is 0.
SteppedDownhill(idx, g) ==
  IF g[MaxGradientDim(g)] = 0 THEN idx
  ELSE [idx EXCEPT ![MaxGradientDim(g)] = @ + (IF g[MaxGradientDim(g)] > 0 THEN -1 ELSE 1)]

\* C17: a step of findNextBest on a cell not yet used moves the index one
\* cell along the axis of the largest gradient, by -1 if it is positive and
\* +1 if negative, and leaves the index where it is when all gradients are 0.
C17_MovesOnlyOnNonzeroGradient ==
  [][(pc = "search" /\ ~converged /\ InGrid(best_idx) /\ ~trajs_3d[best_idx].is_used) =>
       best_idx' =
         SteppedDownhill(
           best_idx,
           findGradients([trajs |-> [trajs_3d EXCEPT ![best_idx].is_used = TRUE],
                          queue |-> candidate_trajs_, num |-> num_trajs_generated,
                          cost |-> 0],
                         best_idx, start_state_).gradients)]_vars

\* C18: while the search runs the index is inside the grid on every axis.
C18_IndexStaysInGrid == pc \in {"search", "search_fault"} => InGrid(best_idx)

\* The stage of a planning call the planner is in: 1 the grid is to be
\* sampled (the obstacles are predicted), 2 search, 3 validation, 4 returned;
\* 0 outside a call.
StageOf(p) ==
  CASE p = "sample" -> 1
    [] p \in {"search", "search_fault"} -> 2
    [] p \in {"validate", "collision_check_get", "validate_throw", "validate_fault"} -> 3
    [] p = "done" -> 4
    [] OTHER -> 0

\* A step that keeps the stages of a call in order: the stage stays or moves
\* to the next one, or a new call begins; a candidate leaves the queue only
\* in validation, after the search reported convergence; the grid's cells do
\* not change from validation on.
StagesInOrder ==
  /\ \/ StageOf(pc') \in {StageOf(pc), StageOf(pc) + 1}
     \/ pc = "done" /\ pc' = "sample"
  /\ Len(candidate_trajs_') < Len(candidate_trajs_) => (converged /\ StageOf(pc) = 3)
  /\ (StageOf(pc) >= 3 /\ pc' # "sample") => trajs_3d' = trajs_3d

\* C22: every planning call passes through predict, sample, search, validate
\* and return in that order: no candidate is popped before the search
\* reported convergence, no cell is generated once validation has started,
\* and no call stops short of the return.
C22_StagesInOrderToReturn ==
  /\ [][StagesInOrder]_vars
  /\ [](pc \notin {"search_fault", "validate_throw", "validate_fault"})

\* C26: throughout the search num_trajs_generated is the number of cells
\* with is_generated set, and between two findNextBest calls every cell with
\* is_used set has is_generated set; each findNextBest call pushes as many
\* candidates as it generates cells and counts, at most 4.
C26_GeneratedCountedAndPushed ==
  /\ [](pc \in {"search", "search_fault"} =>
          /\ num_trajs_generated = Cardinality(GeneratedCells(trajs_3d))
          /\ \A c \in DOMAIN trajs_3d : trajs_3d[c].is_used => trajs_3d[c].is_generated)
  /\ [][(pc = "search" /\ pc' \in {"search", "search_fault"}) =>
          /\ num_trajs_generated' - num_trajs_generated =
               Len(candidate_trajs_') - Len(candidate_trajs_)
          /\ num_trajs_generated' - num_trajs_generated =
               Cardinality(GeneratedCells(trajs_3d') \ GeneratedCells(trajs_3d))
          /\ num_trajs_generated' - num_trajs_generated <= 4
          /\ GeneratedCells(trajs_3d) \subseteq GeneratedCells(trajs_3d')]_vars

\* A findNextBest call generated 4 cells, the centre and its 3 neighbours,
\* and a later one fewer, in the second planning call.
C26_Witness ==
  /\ pc = "search"
  /\ calls = 2
  /\ num_trajs_generated > 4
  /\ num_trajs_generated < Len(candidate_trajs_)

\* C23: with use_async at most one asynchronous collision check is in
\* flight at any time of a call, and it has been joined when the next
\* candidate is popped (the loop is back at its guard) and when the call
\* returns; without use_async there is none.
C23_OneCheckInFlightJoinedBeforePop ==
  /\ Len(collision_check) <= 1
  /\ collision_check # <<>> => (use_async /\ pc = "collision_check_get")
  /\ pc \in {"validate", "done"} => collision_check = <<>>

\* The check of the second candidate of a call is in flight, its task done
\* and not yet joined.
C23_Witness ==
  /\ pc = "collision_check_get"
  /\ num_trajs_validated >= 2
  /\ Len(collision_check) = 1
  /\ collision_check[1].result # <<>>

\* The last record lies between the minima and the maxima in the slots
\* first..last of the times.
TimesBracketed(tr, first, last) ==
  \A i \in first..last : tr.time_min[i] <= tr.time[i] /\ tr.time[i] <= tr.time_max[i]

\* C30: every planning call that returns has handed updateCount a record of
\* 5 counts and 6 timestamps, so count is the number of calls returned; and
\* once a record is accepted each count and each time of the last record,
\* the total time in slot 6 included, lies between its minimum and maximum.
C30_TelemetryConsistent ==
  /\ test_result_.count = (IF pc = "done" \/ calls = 0 THEN calls ELSE calls - 1)
  /\ test_result_.count > 0 =>
       /\ \A i \in 1..test_result_.length :
            /\ test_result_.numbers_min[i] <= test_result_.numbers[i]
            /\ test_result_.numbers[i] <= test_result_.numbers_max[i]
       /\ TimesBracketed(test_result_, 1, test_result_.length + 1)

(***************************************************************************)
(* Properties of checkConstraints (CheckSpec).                             *)
(***************************************************************************)

\* The limits at tick i: x and y finite, speed, acceleration, and the
\* curvature where the trajectory has one.
WithinLimitsAt(traj, i) ==
  /\ isLegal(traj.x[i]) /\ isLegal(traj.y[i])
  /\ ~Gt(traj.s_d[i], settings_.max_speed)
  /\ ~Gt(traj.s_dd[i], settings_.max_accel)
  /\ ~Lt(traj.s_dd[i], settings_.max_decel)
  /\ i <= Len(traj.c) => ~AbsGt(traj.c[i], settings_.max_curvature)

\* C7: constraint_passed is true exactly when every tick, the last one
\* included, is within the limits.
C7_PassedIffWithinLimits ==
  pc = "checked" =>
    (candidate_traj.constraint_passed <=>
       \A i \in 1..Len(candidate_traj.x) : WithinLimitsAt(candidate_traj, i))

(***************************************************************************)
(* Properties of convertToGlobalFrame (ConvertSpec).                       *)
(***************************************************************************)

\* The conversion kept at most one point without an exception.
Truncated ==
  /\ pc \in {"converted", "convert_fault"}
  /\ Len(candidate_traj.x) <= 1

\* C9: a conversion that keeps at most one point completes, and
\* checkConstraints then rejects the trajectory.
C9_TruncatedIsRejected ==
  Truncated => (pc = "converted" /\ ~candidate_traj.constraint_passed)

\* C25: convertToGlobalFrame on a freshly generated candidate whose first
\* n >= 2 global points are finite leaves x, y, yaw and ds of length n and c
\* of length n - 1, and the indices checkConstraints then reads, those of c,
\* are indices of x, y, s_d and s_dd too.
C25_ConvertedLengths ==
  (pc = "converted" /\ LegalPrefix(candidate_traj, cubic_spline.sp, 1) >= 2) =>
    \A n \in {LegalPrefix(candidate_traj, cubic_spline.sp, 1)} :
      /\ Len(candidate_traj.x) = n /\ Len(candidate_traj.y) = n
      /\ Len(candidate_traj.yaw) = n /\ Len(candidate_traj.ds) = n
      /\ Len(candidate_traj.c) = n - 1
      /\ \A i \in 1..Len(candidate_traj.c) :
           /\ i <= Len(candidate_traj.x) /\ i <= Len(candidate_traj.y)
           /\ i <= Len(candidate_traj.s_d) /\ i <= Len(candidate_traj.s_dd)

\* A candidate of three ticks converted with every point finite, and passed
\* by checkConstraints.
C25_Witness ==
  /\ pc = "converted"
  /\ LegalPrefix(candidate_traj, cubic_spline.sp, 1) = 3
  /\ Len(candidate_traj.s) = 3
  /\ candidate_traj.constraint_passed

(***************************************************************************)
(* Properties of predictTrajectories (PredictSpec).                        *)
(***************************************************************************)

\* C10: every predicted trajectory holds floor(max_t / tick_t) + 1 samples
\* of x, y, yaw and v, each position one constant-velocity step from the
\* one before.
C10_PredictionShape ==
  pc = "predicted" =>
    \A i \in 1..Len(obstacle_trajs) :
      /\ Len(obstacle_trajs[i].x) = settings_.max_t \div settings_.tick_t + 1
      /\ Len(obstacle_trajs[i].y) = settings_.max_t \div settings_.tick_t + 1
      /\ Len(obstacle_trajs[i].yaw) = settings_.max_t \div settings_.tick_t + 1
      /\ Len(obstacle_trajs[i].v) = settings_.max_t \div settings_.tick_t + 1
      /\ \A k \in 1..(settings_.max_t \div settings_.tick_t) :
           /\ obstacle_trajs[i].x[k + 1] =
                Add(obstacle_trajs[i].x[k],
                    Mul(Mul(obstacles[i].v, settings_.tick_t), Cos(obstacles[i].yaw)))
           /\ obstacle_trajs[i].y[k + 1] =
                Add(obstacle_trajs[i].y[k],
                    Mul(Mul(obstacles[i].v, settings_.tick_t), Sin(obstacles[i].yaw)))


(***************************************************************************)
(* Properties of checkCollisions and checkTrajCollision (CollideSpec).     *)
(***************************************************************************)

\* Obstacle i has a predicted sample at ego tick j, and the two rectangles
\* of that pair overlap.
RectanglesOverlapAt(ego, otrajs, obs, i, j) ==
  /\ j <= Len(otrajs[i].x) /\ j <= Len(otrajs[i].y) /\ j <= Len(otrajs[i].yaw)
  /\ RectanglesCollide(
       Add(ego.x[j], Mul(Vehicle_Lr, Cos(ego.yaw[j]))),
       Add(ego.y[j], Mul(Vehicle_Lr, Sin(ego.yaw[j]))),
       RectExtent(ego.yaw[j], settings_.vehicle_length, settings_.vehicle_width, 0, 0),
       otrajs[i].x[j], otrajs[i].y[j],
       RectExtent(otrajs[i].yaw[j], obs[i].length, obs[i].width,
                  settings_.safety_margin_lon, settings_.safety_margin_lat))

\* The pairs that overlap, numbered from 1 in the order they are examined:
\* obstacle by obstacle, tick by tick.
OverlappingPairs ==
  {p \in 1..(Len(obstacles) * Len(candidate_traj.x)) :
     RectanglesOverlapAt(candidate_traj, obstacle_trajs, obstacles,
                         ((p - 1) \div Len(candidate_traj.x)) + 1,
                         ((p - 1) % Len(candidate_traj.x)) + 1)}

\* C11: checkTrajCollision returns; with an overlapping pair it returns false
\* and the number of the first such pair, with none it returns true and the
\* number of all pairs.
C11_StopsAtFirstOverlap ==
  /\ pc # "collide_fault"
  /\ pc = "collided" =>
       IF OverlappingPairs = {}
       THEN /\ candidate_traj.collision_passed
            /\ num_collision_checks = Len(obstacles) * Len(candidate_traj.x)
       ELSE /\ ~candidate_traj.collision_passed
            /\ num_collision_checks \in OverlappingPairs
            /\ \A p \in OverlappingPairs : num_collision_checks <= p

\* C24: for every pair (obstacle i, ego tick j) checkTrajCollision examined,
\* the predicted trajectory of obstacle i has an x, a y and a yaw sample at
\* tick j.  The pairs examined are the first num_checks ones, obstacle by
\* obstacle, tick by tick.
C24_ObstacleSamplesInRange ==
  pc \in {"collided", "collide_fault"} =>
    \A p \in 1..num_collision_checks :
      \A i \in {((p - 1) \div Len(candidate_traj.x)) + 1} :
        \A j \in {((p - 1) % Len(candidate_traj.x)) + 1} :
          /\ j <= Len(obstacle_trajs[i].x)
          /\ j <= Len(obstacle_trajs[i].y)
          /\ j <= Len(obstacle_trajs[i].yaw)

\* C15: what checkCollisions leaves with use_async is what it leaves
\* without, on the same trajectories: the same value returned, collision_passed and
\* num_checks, whichever way the other branch runs.
C15_AsyncSameAsSync ==
  [][pc = "collide_input" =>
       \A o \in checkCollisions(candidate_traj, obstacle_trajs, obstacles, ~use_async,
                                num_collision_checks) :
            /\ o.kind = "ok"
            /\ pc' = "collided"
            /\ returned' = <<o.traj.collision_passed>>
            /\ candidate_traj'.collision_passed = o.traj.collision_passed
            /\ num_collision_checks' = o.num_checks]_vars


(***************************************************************************)
(* Properties of the spline (SplineSpec).                                  *)
(***************************************************************************)

\* C14: at every knot, the last one included, each spline returns the value
\* it was built over at that knot, and no lookup throws.
C14_InterpolatesEveryKnot ==
  pc = "spline_value" =>
    /\ returned[2].x # Throw /\ returned[2].y # Throw
    /\ returned[2].x = cubic_spline.lane.x[returned[1]]
    /\ returned[2].y = cubic_spline.lane.y[returned[1]]


(***************************************************************************)
(* Properties of sampleEndStates (SampleSpec).                             *)
(***************************************************************************)

\* The estimated cost of a cell.
EstimatedCost(grid, c) == Add(grid[c].fix_cost, grid[c].hur_cost)

\* C19: the seed is a cell of the grid, no cell has a lower fix_cost +
\* hur_cost, and no cell of the same cost comes before it in loop order.
C19_SeedIsFirstMinimum ==
  pc = "sampled" =>
    /\ InGrid(best_idx)
    /\ \A c \in Cells :
         /\ EstimatedCost(trajs_3d, best_idx) <= EstimatedCost(trajs_3d, c)
         /\ EstimatedCost(trajs_3d, c) = EstimatedCost(trajs_3d, best_idx) =>
              CellRank(best_idx) <= CellRank(c)

\* A grid sampled with two cells of the least cost.
C19_Witness ==
  /\ pc = "sampled"
  /\ \E c \in Cells \ {best_idx} :
       EstimatedCost(trajs_3d, c) = EstimatedCost(trajs_3d, best_idx)


\* C21: every lateral end offset sampleEndStates samples lies inside the
\* lane, right_bound <= d <= left_bound, whether or not the lane is symmetric
\* about center_offset (the grid is num_width = 3 cells wide).
C21_EndOffsetsInsideLane ==
  pc = "sampled" =>
    \A c \in Cells :
      /\ trajs_3d[c].end_state.d \notin NonFinite
      /\ right_width <= trajs_3d[c].end_state.d
      /\ trajs_3d[c].end_state.d <= left_width

(***************************************************************************)
(* Properties of findGradients (GradientSpec).                             *)
(***************************************************************************)

\* The neighbour on axis dim: one cell up, or one cell down from the last
\* index.
NeighbourOn(idx, dim) ==
  [idx EXCEPT ![dim] = IF @ = GridSizes[dim] - 1 THEN @ - 1 ELSE @ + 1]

\* The index is at a boundary of axis dim and its only neighbour there does
\* not cost less than the centre.
NoDescentOn(grid, idx, dim) ==
  /\ idx[dim] = 0 \/ idx[dim] = GridSizes[dim] - 1
  /\ grid[NeighbourOn(idx, dim)].final_cost >= grid[idx].final_cost

\* C20: on a grid of at least 2 cells per axis findGradients generates the
\* centre and, on each axis, the neighbour one up (one down from the last
\* index), all inside the grid and no other cell; and the gradient of an
\* axis is 0 when the index is at a boundary of it and the neighbour does not
\* cost less than the centre.
C20_NeighboursInGridAndClamped ==
  (pc = "gradients" /\ \A dim \in 1..3 : GridSizes[dim] >= 2) =>
    /\ GeneratedCells(trajs_3d) =
         {best_idx} \cup {NeighbourOn(best_idx, dim) : dim \in 1..3}
    /\ \A dim \in 1..3 :
         /\ InGrid(NeighbourOn(best_idx, dim))
         /\ NoDescentOn(trajs_3d, best_idx, dim) => returned[dim] = 0

\* Gradients taken at a cell on two boundaries: on one the neighbour is
\* dearer and the gradient 0, on the other it is cheaper and the gradient is
\* not 0.
C20_Witness ==
  /\ pc = "gradients"
  /\ \E dim \in 1..3 : best_idx[dim] = 0 /\ NoDescentOn(trajs_3d, best_idx, dim)
  /\ \E dim \in 1..3 :
       /\ best_idx[dim] = GridSizes[dim] - 1
       /\ ~NoDescentOn(trajs_3d, best_idx, dim)
       /\ returned[dim] # 0

(***************************************************************************)
(* Properties of checkPaths (LegacySpec).                                  *)
(***************************************************************************)

\* The path keeps the speed and acceleration limits at every tick checked,
\* the ticks that have a curvature.
KeepsLimits(path) ==
  \A j \in 1..Len(path.c) :
    /\ path.s_d[j] <= legacy_settings_.max_speed
    /\ path.s_dd[j] <= legacy_settings_.max_accel
    /\ path.s_dd[j] >= legacy_settings_.max_decel

\* The curvature of the path changes by no more than max_curvature_change
\* between two consecutive ones of its first path_size waypoints.
KeepsCurvatureRate(path) ==
  \A j \in 2..Len(path.c) :
    (j - 1 < path_size) =>
      Abs(path.c[j] - path.c[j - 1]) <= legacy_settings_.max_curvature_change

\* C27: checkPaths returns only safe paths: each keeps the speed and
\* acceleration limits at every checked tick and passed the collision check
\* without margin; a path that failed the curvature-rate check is returned
\* only when no input path that keeps the limits and the curvature rate is
\* free of collision; and when no input path is safe the vector returned is
\* empty.
C27_ReturnsOnlySafePaths ==
  pc = "paths_checked" =>
    /\ \A k \in 1..Len(returned[1]) :
         /\ KeepsLimits(returned[1][k])
         /\ returned[1][k].clearance > 0
         /\ ~returned[1][k].curvature_check =>
              /\ ~KeepsCurvatureRate(returned[1][k])
              /\ \A n \in 1..Len(frenet_paths_list) :
                   (KeepsLimits(frenet_paths_list[n])
                      /\ KeepsCurvatureRate(frenet_paths_list[n])) =>
                     frenet_paths_list[n].clearance = 0
    /\ (\A n \in 1..Len(frenet_paths_list) :
          ~KeepsLimits(frenet_paths_list[n]) \/ frenet_paths_list[n].clearance = 0) =>
         returned[1] = <<>>

\* checkPaths returned a path that failed the curvature-rate check, from a
\* list with a path that passed it and collides and a path over the limits.
C27_Witness ==
  /\ pc = "paths_checked"
  /\ \E k \in 1..Len(returned[1]) : ~returned[1][k].curvature_check
  /\ \E n \in 1..Len(frenet_paths_list) :
       /\ KeepsLimits(frenet_paths_list[n]) /\ KeepsCurvatureRate(frenet_paths_list[n])
       /\ frenet_paths_list[n].clearance = 0
  /\ \E n \in 1..Len(frenet_paths_list) : ~KeepsLimits(frenet_paths_list[n])

\* The seven classification lists, one after the other.
ClassificationLists ==
  unsafe_paths \o safest_paths \o close_proximity_paths \o backup_unchecked_paths
    \o backup_unsafe_paths \o backup_safest_paths \o backup_close_proximity_paths

\* The entry of a list is the copy of the input path: checkPaths changes
\* only cf and curvature_check of its copies.
CopyOf(entry, path) ==
  [entry EXCEPT !.cf = path.cf, !.curvature_check = path.curvature_check] = path

\* C29: after checkPaths returns every input path is in exactly one of the
\* seven classification lists, the lists hold nothing else (no entry of an
\* earlier call is left), and no future is left unjoined; a future is
\* dropped only once its task has delivered its result.
C29_EveryPathClassifiedOnce ==
  /\ [](pc = "paths_checked" =>
          /\ \A n \in 1..Len(frenet_paths_list) :
               Cardinality({k \in 1..Len(ClassificationLists) :
                              CopyOf(ClassificationLists[k], frenet_paths_list[n])}) = 1
          /\ Len(ClassificationLists) = Len(frenet_paths_list)
          /\ collision_checks = <<>>)
  /\ [][(\E n \in 1..Len(collision_checks) : collision_checks[n].result = <<>>) =>
          /\ Len(collision_checks') = Len(collision_checks)
          /\ \A n \in 1..Len(collision_checks) :
               collision_checks'[n].path = collision_checks[n].path]_vars

\* The second call of checkPaths returned, the first having filled lists,
\* with a path over the limits, one left unchecked as a backup, and one
\* each in safest_paths and close_proximity_paths.
C29_Witness ==
  /\ pc = "paths_checked"
  /\ calls = 2
  /\ unsafe_paths # <<>>
  /\ backup_unchecked_paths # <<>>
  /\ Len(safest_paths) + Len(close_proximity_paths) > 0
  /\ Len(frenet_paths_list) >= 3

(***************************************************************************)
(* Properties of findBestPaths (BestPathSpec).                             *)
(***************************************************************************)

\* C28: the path findBestPaths returns for a lane, of a list that is not
\* empty, has the lane_id of that lane and the lowest cost of the paths of
\* the list with that lane_id; a path of another lane is never returned for
\* the lane.
C28_BestPathOfRequestedLane ==
  (pc = "best_paths_found" /\ frenet_paths_list # <<>>) =>
    \A lane \in 0..2 :
      /\ returned[1][lane + 1].lane_id = lane
      /\ \A k \in 1..Len(frenet_paths_list) :
           frenet_paths_list[k].lane_id = lane =>
             returned[1][lane + 1].cf <= frenet_paths_list[k].cf

\* The same for the lanes that have a path in the list with a cost of at
\* most the value min_cost starts with.
C28_BestPathOfLaneWithPaths ==
  pc = "best_paths_found" =>
    \A lane \in 0..2 :
      (\E k \in 1..Len(frenet_paths_list) :
         /\ frenet_paths_list[k].lane_id = lane
         /\ frenet_paths_list[k].cf <= LargeCost) =>
        /\ returned[1][lane + 1].lane_id = lane
        /\ \A k \in 1..Len(frenet_paths_list) :
             frenet_paths_list[k].lane_id = lane =>
               returned[1][lane + 1].cf <= frenet_paths_list[k].cf

=============================================================================
